---------------------------- MODULE Spec2Model ----------------------------
(***************************************************************************)
(* ServiLocal: the Express route handlers, the authentication middleware,  *)
(* the storage layer and the in-memory cache, as state machines.           *)
(*                                                                         *)
(* A request is a slot of `req`.  A handler runs to its next `await`       *)
(* without interruption (Node's event loop), so every action below is one  *)
(* such run: it starts with the result of the awaited storage call and     *)
(* ends where the next storage call is issued or the response is sent.     *)
(* A slot keeps the response (pc "done") until the next request takes it.  *)
(*                                                                         *)
(* The relational database is modelled with the constraints the schema     *)
(* declares (serial primary keys, unique columns, column defaults).        *)
(* Storage failures other than constraint violations, and the IP rate      *)
(* limiters mounted in front of /api/, are outside the model.              *)
(***************************************************************************)
EXTENDS Integers, Sequences, FiniteSets, TLC

VARIABLES
    users,        \* table users: sequence of rows, id = index
    session,      \* session store: client cookie -> session.userId (0: none)
    tokens,       \* user ids holding a signed token younger than 12 hours
    categories,   \* table categories: id -> row or NoRow (deleted)
    services,     \* table services: id -> row or NoRow (deleted)
    suggestions,  \* table suggestions: id -> row
    reviews,      \* table reviews: id -> row
    tickets,      \* table support_tickets: id -> row
    req,          \* request slots: a request in flight, or the response it got
    cache,        \* NodeCache: key -> entry or NoEntry
    fetch,        \* CacheManager.getServices calls suspended in their fetcher
    creating,     \* DatabaseStorage.createService calls suspended in their insert
    preChange,    \* history: keys whose cached value was read before a change
                  \* that has since been followed by invalidatePattern
    lastOp,       \* history: the last storage / cache operation and its result
    connections,      \* WebSocketManager.connections: connection id -> socket
    userConnections,  \* WebSocketManager.userConnections: user id -> set of ids
    sockets,          \* the sockets the server has accepted, with what the
                      \* closures of handleConnection captured
    now,              \* Date.now(), in milliseconds
    payments,         \* the payment records written through storage
    stripe,           \* payments.ts `stripe`: STRIPE_SECRET_KEY was set at start
    tempTwoFactor,    \* pending two-factor secrets: user id -> record
    userTwoFactor     \* activated two-factor records: user id -> record

dbVars    == <<users, session, tokens, categories, services, suggestions, reviews, tickets>>
httpVars  == <<req>>
cacheVars == <<cache, fetch, creating, preChange>>
wsVars    == <<connections, userConnections, sockets, now>>
payVars   == <<payments, stripe>>
tfaVars   == <<tempTwoFactor, userTwoFactor>>
extVars   == <<wsVars, payVars, tfaVars>>
vars      == <<users, session, tokens, categories, services, suggestions, reviews,
               tickets, req, cache, fetch, creating, preChange, lastOp,
               connections, userConnections, sockets, now,
               payments, stripe, tempTwoFactor, userTwoFactor>>

-----------------------------------------------------------------------------
(* Bounds of the model *)

\* users table rows (two seeded, the rest registered)
MaxUsers == 4

\* services table rows ever inserted
MaxServices == 2

\* the maxAttempts handed to checkUserRateLimit
MaxAttempts == 2

\* categories table rows ever inserted
MaxCategories == 2

\* support_tickets table rows ever inserted
MaxTickets == 2

\* milliseconds the clock runs through
MaxMs == 2

\* payment records ever written
MaxPayments == 2

-----------------------------------------------------------------------------
(* Values *)

Clients  == {"c1"}
RegReqs  == {"r1", "r2"}
Reqs     == {"r1", "r2"}

NoRow    == [deleted |-> TRUE]
Live(table) == {i \in 1..Len(table) : ~table[i].deleted}
NoUser   == [id |-> 0, role |-> "none", isActive |-> FALSE]
NoHdr    == [scheme |-> "none", uid |-> 0, iat |-> "-", sig |-> "-"]
NoBody   == [valid |-> TRUE]
\* a free slot; `dup` is history: the registration named, on arrival, a username
\* or an email some user already had
Idle     == [kind |-> "none", pc |-> "idle", client |-> "c1", hdr |-> NoHdr,
             body |-> NoBody, user |-> NoUser, dup |-> FALSE,
             status |-> 0, cause |-> "none"]
Free(r)  == req[r].pc \in {"idle", "done"}

\* the rows the database is seeded with: no route creates an admin
\* hashPassword(password): bcrypt's digest, never the password itself
HashPassword(password) == <<"bcrypt", password>>

SeedUsers ==
    << [username |-> "admin", email |-> "admin@x.co", password |-> HashPassword("seed"),
        role |-> "admin", isActive |-> TRUE],
       [username |-> "ana",   email |-> "ana@x.co",   password |-> HashPassword("seed"),
        role |-> "user",  isActive |-> TRUE] >>

UserIds == 1..Len(users)

-----------------------------------------------------------------------------
(* express-validator / sanitizeInput on POST /api/register *)

RawEmails == {"ana@x.co", "ANA@x.co", "neo@x.co", "NEO@x.co"}

\* body('email').normalizeEmail(): lower-cases the address
NormalizeEmail(e) ==
    CASE e = "ANA@x.co" -> "ana@x.co"
      [] e = "NEO@x.co" -> "neo@x.co"
      [] OTHER          -> e

\* the keys a body may carry beyond the form's: none, or role and isActive
\* (when `given` is false the body has neither key and the values are unused)
NoExtra    == [given |-> FALSE, role |-> "user", isActive |-> TRUE]
AdminExtra == [given |-> TRUE, role |-> "admin", isActive |-> FALSE]

ValidatedAll(body) ==
    IF body.extra.given
    THEN [username |-> body.username, email |-> NormalizeEmail(body.email),
          password |-> body.password,
          role |-> body.extra.role, isActive |-> body.extra.isActive]
    ELSE [username |-> body.username, email |-> NormalizeEmail(body.email),
          password |-> body.password]

\* registerSchema.parse(req.body) after validateRegistration + sanitizeInput:
\* the fields picked (any other key is stripped), the email normalized;
\* body.valid is the validators' verdict
Validated(body) ==
    [username |-> body.username, email |-> NormalizeEmail(body.email),
     password |-> body.password]

\* the registrations tried; the one naming zoe also carries role and isActive
RegisterBodies ==
    {body \in [username : {"ana", "neo", "zoe"}, email : RawEmails, valid : BOOLEAN,
               password : {"secret"}, extra : {NoExtra, AdminExtra}] :
        body.extra.given <=> body.username = "zoe"}

-----------------------------------------------------------------------------
(* storage: users *)

\* storage.getUserByUsername: the row's id, 0 when there is none
GetUserByUsername(username) ==
    IF \E i \in UserIds : users[i].username = username
    THEN CHOOSE i \in UserIds : users[i].username = username
    ELSE 0

\* storage.getUserByEmail
GetUserByEmail(email) ==
    IF \E i \in UserIds : users[i].email = email
    THEN CHOOSE i \in UserIds : users[i].email = email
    ELSE 0

\* storage.getUser(id.toString()): parseInt gives the id back
GetUser(id) ==
    IF id \in UserIds
    THEN [id |-> id, role |-> users[id].role, isActive |-> users[id].isActive]
    ELSE NoUser

UniqueViolationNever(row) == FALSE

\* users.username and users.email are declared .unique(): the insert throws
UniqueViolation(row) ==
    \E i \in UserIds : users[i].username = row.username \/ users[i].email = row.email

\* the row createUser inserts for { ...validated, password: hashedPassword }:
\* the columns not given (role, isActive) take their defaults
NewUserRow(validated) ==
    [f \in {"username", "email", "password", "role", "isActive"} |->
        CASE f = "password" -> HashPassword(validated.password)
          [] f \in DOMAIN validated -> validated[f]
          [] f = "role" -> "user"
          [] OTHER -> TRUE]

\* `const { password, ...userWithoutPassword } = user`
WithoutPassword(user) == [f \in DOMAIN user \ {"password"} |-> user[f]]

-----------------------------------------------------------------------------
(* storage: services and categories *)

\* id.toString(), as stored in services.userId (varchar)
IdToString(id) ==
    CASE id = 1 -> "1" [] id = 2 -> "2" [] id = 3 -> "3" [] id = 4 -> "4"
      [] id = 5 -> "5" [] OTHER -> "0"

SeedProvider ==
    [username |-> "prov", email |-> "prov@x.co", password |-> HashPassword("seed"),
     role |-> "provider", isActive |-> TRUE]

SeedCategories == << [deleted |-> FALSE, name |-> "plomeria", isActive |-> TRUE] >>

\* the set clause of an update: the fields given replace the row's
Merge(row, partial) ==
    [f \in DOMAIN row |-> IF f \in DOMAIN partial THEN partial[f] ELSE row[f]]

\* db.insert(services).values(data): the columns not given take their defaults
ServiceRow(data) ==
    Merge([deleted |-> FALSE, userId |-> "0", categoryId |-> 0, isApproved |-> FALSE,
           isFeatured |-> FALSE, reviewCount |-> 0], data)

\* services.user_id references users.id, services.category_id references
\* categories.id: the insert throws when the row referred to does not exist
ServiceFkViolation(data) ==
    \/ ~\E u \in UserIds : IdToString(u) = data.userId
    \/ data.categoryId \notin Live(categories)

\* db.update(services).set(partial).where(eq(services.id, id))
UpdatedServices(id, partial) ==
    IF id \in Live(services)
    THEN [services EXCEPT ![id] = Merge(services[id], partial)]
    ELSE services

\* db.delete(services).where(eq(services.id, id))
DeletedServices(id) ==
    IF id \in Live(services) THEN [services EXCEPT ![id] = NoRow] ELSE services

\* approveService: set({ isApproved: true })
ApprovalSet(id) == [isApproved |-> TRUE]

\* storage.getServices({ approved: true })
ApprovedServices == {i \in Live(services) : services[i].isApproved}

\* storage.getCategories(): where isActive = true
ActiveCategories == {i \in Live(categories) : categories[i].isActive}

RECURSIVE SumReviews(_)
SumReviews(ids) ==
    IF ids = {} THEN 0
    ELSE LET i == CHOOSE x \in ids : TRUE
         IN services[i].reviewCount + SumReviews(ids \ {i})

\* the fetcher of getCachedStats (the same figures as GET /api/stats)
Stats ==
    [services   |-> Cardinality(ApprovedServices),
     providers  |-> Cardinality({services[i].userId : i \in ApprovedServices}),
     reviews    |-> SumReviews(ApprovedServices),
     categories |-> Cardinality(ActiveCategories)]

-----------------------------------------------------------------------------
(* cache.ts: CacheManager over NodeCache *)

\* keys are strings, one character per element
KeyStats     == <<"s","t","a","t","s",":","g","l","o","b","a","l">>
KeyServices  == <<"s","e","r","v","i","c","e","s",":","a","l","l">>
PatServices  == <<"s","e","r","v","i","c","e","s">>
PatStats     == <<"s","t","a","t","s">>
SessionKey(userId) == <<"s","e","s","s","i","o","n",":">> \o userId
RateLimitKey(userId, action) ==
    <<"r","a","t","e","_","l","i","m","i","t",":">> \o userId \o <<":">> \o action

CacheUserIds == {<<"1">>, <<"1","2">>}
CacheActions == {<<"l","o","g","i","n">>}
CacheKeys ==
    {KeyStats, KeyServices} \cup {SessionKey(u) : u \in CacheUserIds}
               \cup {RateLimitKey(u, a) : u \in CacheUserIds, a \in CacheActions}

NoEntry == [present |-> FALSE]
Entry(value, ttl) == [present |-> TRUE, value |-> value, ttl |-> ttl]

IncludesPrefix(key, pattern) ==
    Len(pattern) <= Len(key) /\ SubSeq(key, 1, Len(pattern)) = pattern

\* String.prototype.includes: the pattern occurs at some index of the key
Includes(key, pattern) ==
    \E i \in 0..(Len(key) - Len(pattern)) : SubSeq(key, i + 1, i + Len(pattern)) = pattern

\* keys().filter(key => key.includes(pattern)); keys() lists the stored keys
MatchingKeys(c, pattern) == {k \in DOMAIN c : c[k].present /\ Includes(k, pattern)}

\* invalidatePattern: cache.del(matchingKeys)
Invalidated(c, pattern) ==
    [k \in DOMAIN c |-> IF k \in MatchingKeys(c, pattern) THEN NoEntry ELSE c[k]]

\* createService, after its insert: invalidatePattern('services'), then ('stats')
InvalidatedOnCreate(c) == Invalidated(Invalidated(c, PatServices), PatStats)

-----------------------------------------------------------------------------
(* responses *)

\* res.status(status).json(...): the slot keeps the route, the status, what
\* led to it and the user the response shows
Respond(r, status, cause, user) ==
    req' = [req EXCEPT ![r] = [Idle EXCEPT !.kind = req[r].kind, !.pc = "done",
                                           !.status = status, !.cause = cause,
                                           !.user = user]]

\* the response with its JSON payload
RespondWith(r, status, cause, payload) ==
    req' = [req EXCEPT ![r] = [Idle EXCEPT !.kind = req[r].kind, !.pc = "done",
                                           !.status = status, !.cause = cause,
                                           !.body = payload]]

Goto(r, pc) == req' = [req EXCEPT ![r].pc = pc]

-----------------------------------------------------------------------------
(* POST /api/register *)

ArriveRegister(r, c, body) ==
    /\ Free(r)
    /\ Len(users) + Cardinality({q \in Reqs : req[q].kind = "register" /\ ~Free(q)})
           < MaxUsers
    /\ req' = [req EXCEPT ![r] = [Idle EXCEPT !.kind = "register", !.pc = "recv",
                                              !.client = c, !.body = body,
                                              !.dup = \E i \in UserIds :
                                                  \/ users[i].username = body.username
                                                  \/ users[i].email = body.email]]
    /\ UNCHANGED <<extVars, dbVars, cacheVars, lastOp>>

UsernameTakenNever(username) == FALSE

UsernameTaken(username) == GetUserByUsername(username) # 0

EmailTaken(email) == GetUserByEmail(email) # 0

\* sanitizeInput, registerSchema.parse, then the result of getUserByUsername
RegisterCheckUsername(r) ==
    /\ req[r].kind = "register" /\ req[r].pc = "recv"
    /\ IF ~req[r].body.valid
       THEN Respond(r, 400, "validation", NoUser)
       ELSE IF UsernameTaken(Validated(req[r].body).username)
            THEN Respond(r, 400, "username", NoUser)
            ELSE Goto(r, "email")
    /\ UNCHANGED <<extVars, dbVars, cacheVars, lastOp>>

\* the result of getUserByEmail; hashPassword touches no shared state
RegisterCheckEmail(r) ==
    /\ req[r].kind = "register" /\ req[r].pc = "email"
    /\ IF EmailTaken(Validated(req[r].body).email)
       THEN Respond(r, 400, "email", NoUser)
       ELSE Goto(r, "insert")
    /\ UNCHANGED <<extVars, dbVars, cacheVars, lastOp>>

\* the result of createUser, generateToken, req.session.userId = user.id
RegisterInsert(r) ==
    /\ req[r].kind = "register" /\ req[r].pc = "insert"
    /\ LET row == NewUserRow(Validated(req[r].body))
           id  == Len(users) + 1
       IN IF UniqueViolation(row)
          THEN /\ Respond(r, 500, "db", NoUser)
               /\ UNCHANGED <<users, session, tokens>>
          ELSE /\ users' = Append(users, row)
               /\ tokens' = tokens \cup {id}
               /\ session' = [session EXCEPT ![req[r].client] = id]
               /\ RespondWith(r, 201, "ok", [user |-> WithoutPassword(row), token |-> id])
    /\ UNCHANGED <<extVars, categories, services, suggestions, reviews, tickets, cacheVars, lastOp>>

-----------------------------------------------------------------------------
(* auth: verifyToken and the authenticate middleware *)

\* an Authorization header: a Bearer token signed by the server (sig "ok"),
\* signed with another key ("forged"), or not of the token format ("malformed")
TokenHdr(u, iat) == [scheme |-> "bearer", uid |-> u, iat |-> iat, sig |-> "ok"]
ForgedHdr(u)     == [scheme |-> "bearer", uid |-> u, iat |-> "fresh", sig |-> "forged"]
GarbageHdr       == [scheme |-> "bearer", uid |-> 0, iat |-> "-", sig |-> "malformed"]

\* the headers a client can send: a fresh signed token exists only for the users
\* in `tokens`, a signed token older than 12 hours for every user
Headers ==
    {NoHdr, GarbageHdr, ForgedHdr(1)}
        \cup {TokenHdr(u, "fresh") : u \in tokens}
        \cup {TokenHdr(u, "old") : u \in UserIds}

\* verifyToken: decoded.userId, 0 for null (bad signature, or older than 12 hours)
VerifyToken(hdr) ==
    IF hdr.sig = "ok" /\ hdr.iat = "fresh" THEN hdr.uid ELSE 0

AuthUserIdSessionOnly(hdr, sessionUserId) ==
    IF sessionUserId > 0 THEN sessionUserId ELSE 0

\* authenticate, down to `if (!userId)`: the user id the request is taken to be
\* from, 0 when it answers 401 before looking the user up
AuthUserId(hdr, sessionUserId) ==
    IF hdr.scheme = "bearer" /\ hdr.sig = "malformed"
    THEN 0
    ELSE LET decoded == IF hdr.scheme = "bearer" THEN VerifyToken(hdr) ELSE 0
         IN IF decoded # 0 THEN decoded
            ELSE IF sessionUserId > 0 THEN sessionUserId
            ELSE 0

MayPassInactive(user) == user.id # 0

\* `if (!user || !user.isActive) return 401`
MayPass(user) == user.id # 0 /\ user.isActive

\* authenticate: req.user, NoUser when it answered 401
Authenticate(r) ==
    LET userId == AuthUserId(req[r].hdr, session[req[r].client])
        user   == GetUser(userId)
    IN IF userId # 0 /\ MayPass(user) THEN user ELSE NoUser

\* why authenticate answered 401
AuthFailure(r) ==
    LET userId == AuthUserId(req[r].hdr, session[req[r].client])
    IN IF userId = 0 THEN "credentials"
       ELSE IF GetUser(userId).id = 0 THEN "unknown" ELSE "inactive"

Arrive(r, kind, c, hdr, body) ==
    /\ Free(r)
    /\ req' = [req EXCEPT ![r] = [Idle EXCEPT !.kind = kind, !.pc = "recv", !.client = c,
                                              !.hdr = hdr, !.body = body]]
    /\ UNCHANGED <<extVars, dbVars, cacheVars, lastOp>>

\* GET /api/user: authenticate, then the handler answers with req.user
GetCurrentUser(r) ==
    /\ req[r].kind = "user" /\ req[r].pc = "recv"
    /\ LET user == Authenticate(r)
       IN IF user.id = 0
          THEN Respond(r, 401, AuthFailure(r), NoUser)
          ELSE Respond(r, 200, "ok", user)
    /\ UNCHANGED <<extVars, dbVars, cacheVars, lastOp>>

-----------------------------------------------------------------------------
(* POST /api/login, POST /api/logout *)

LoginBodies == [username : {"admin", "ana", "zoe"}, pwOk : BOOLEAN, valid : BOOLEAN]

\* validateLogin + sanitizeInput, loginSchema.parse, the result of getUserByUsername
LoginFindUser(r) ==
    /\ req[r].kind = "login" /\ req[r].pc = "recv"
    /\ LET user == GetUser(GetUserByUsername(req[r].body.username))
       IN IF ~req[r].body.valid
          THEN Respond(r, 400, "validation", NoUser)
          ELSE IF user.id = 0 \/ ~user.isActive
               THEN Respond(r, 401, "credentials", NoUser)
               ELSE /\ req' = [req EXCEPT ![r].pc = "password", ![r].user = user]
                   
    /\ UNCHANGED <<extVars, dbVars, cacheVars, lastOp>>

\* the result of comparePassword, generateToken, req.session.userId = user.id
LoginPassword(r) ==
    /\ req[r].kind = "login" /\ req[r].pc = "password"
    /\ IF ~req[r].body.pwOk
       THEN /\ Respond(r, 401, "credentials", NoUser)
            /\ UNCHANGED <<tokens, session>>
       ELSE /\ tokens' = tokens \cup {req[r].user.id}
            /\ session' = [session EXCEPT ![req[r].client] = req[r].user.id]
            /\ Respond(r, 200, "ok", req[r].user)
    /\ UNCHANGED <<extVars, users, categories, services, suggestions, reviews, tickets,
                   cacheVars, lastOp>>

\* req.session.destroy
Logout(r) ==
    /\ req[r].kind = "logout" /\ req[r].pc = "recv"
    /\ session' = [session EXCEPT ![req[r].client] = 0]
    /\ Respond(r, 200, "ok", NoUser)
    /\ UNCHANGED <<extVars, users, tokens, categories, services, suggestions, reviews, tickets,
                   cacheVars, lastOp>>

\* storage.updateUser(id, {isActive}): db.update(users).set(...).where(id)
UpdateUser(id, isActive) ==
    /\ id \in UserIds
    /\ users[id].isActive # isActive
    /\ users' = [users EXCEPT ![id].isActive = isActive]
    /\ UNCHANGED <<extVars, session, tokens, categories, services, suggestions, reviews, tickets,
                   httpVars, cacheVars, lastOp>>

\* twelve hours pass since user u's token was signed
AgeToken(u) ==
    /\ u \in tokens
    /\ tokens' = tokens \ {u}
    /\ UNCHANGED <<extVars, users, session, categories, services, suggestions, reviews, tickets,
                   httpVars, cacheVars, lastOp>>

-----------------------------------------------------------------------------
(* Initial state *)

InitDb ==
    /\ users = SeedUsers
    /\ session = [c \in Clients |-> 0]
    /\ tokens = {}
    /\ categories = << >>
    /\ services = << >>
    /\ suggestions = << >>
    /\ reviews = << >>
    /\ tickets = << >>

InitHttp ==
    req = [r \in Reqs |-> Idle]

FetchSlots  == {"f1"}
CreateSlots == {"s1"}
NoStats     == [services |-> 0, providers |-> 0, reviews |-> 0, categories |-> 0]
NoFetch     == [pc |-> "idle", key |-> KeyStats, data |-> NoStats, early |-> FALSE]
NoCreate    == [pc |-> "idle", readers |-> {}]

InitCache ==
    /\ cache = [k \in CacheKeys |-> NoEntry]
    /\ fetch = [f \in FetchSlots |-> NoFetch]
    /\ creating = [c \in CreateSlots |-> NoCreate]
    /\ preChange = {}
    /\ lastOp = [op |-> "none"]

\* the websocket manager, the payment records and the two-factor stores at start
Sockets   == {"w1", "w2", "w3"}
Rnds      == {"a", "b"}
ConnIds   == (1..MaxMs) \X Rnds
WsUserIds == {"1", "2", "undefined"}
TfaUserIds == {"1", "2", "3"}
NoSocket  == [state |-> "none", userId |-> "undefined", connectionId |-> <<0, "-">>]
NoConns   == [has |-> FALSE, ids |-> {}]
NoTwoFactor == [exists |-> FALSE, secret |-> "-", backupCodes |-> {}, isActive |-> FALSE]

InitExt ==
    /\ connections = [id \in ConnIds |-> "none"]
    /\ userConnections = [u \in WsUserIds |-> NoConns]
    /\ sockets = [w \in Sockets |-> NoSocket]
    /\ now = 1
    /\ payments = << >>
    /\ stripe = FALSE
    /\ tempTwoFactor = [u \in TfaUserIds |-> NoTwoFactor]
    /\ userTwoFactor = [u \in TfaUserIds |-> NoTwoFactor]


-----------------------------------------------------------------------------
(* Registration: concurrent POST /api/register requests *)

InitRegister == InitDb /\ InitHttp /\ InitCache /\ InitExt

NextRegister ==
    \/ \E r \in RegReqs, c \in Clients, body \in RegisterBodies : ArriveRegister(r, c, body)
    \/ \E r \in RegReqs : RegisterCheckUsername(r)
    \/ \E r \in RegReqs : RegisterCheckEmail(r)
    \/ \E r \in RegReqs : RegisterInsert(r)

SpecRegister == InitRegister /\ [][NextRegister]_vars

-----------------------------------------------------------------------------
(* Sessions and tokens: login, logout, authenticated requests, deactivation *)

AuthReqs == {"r1", "r2"}

InitAuth == InitDb /\ InitHttp /\ InitCache /\ InitExt

NextAuth ==
    \/ \E r \in AuthReqs, c \in Clients, body \in LoginBodies :
           Arrive(r, "login", c, NoHdr, body)
    \/ \E r \in AuthReqs, c \in Clients : Arrive(r, "logout", c, NoHdr, NoBody)
    \/ \E r \in AuthReqs, c \in Clients, hdr \in Headers : Arrive(r, "user", c, hdr, NoBody)
    \/ \E r \in AuthReqs : LoginFindUser(r)
    \/ \E r \in AuthReqs : LoginPassword(r)
    \/ \E r \in AuthReqs : Logout(r)
    \/ \E r \in AuthReqs : GetCurrentUser(r)
    \/ \E id \in UserIds, b \in BOOLEAN : UpdateUser(id, b)
    \/ \E u \in UserIds : AgeToken(u)

SpecAuth == InitAuth /\ [][NextAuth]_vars

-----------------------------------------------------------------------------
(* the cache over the services table: storage operations called directly *)

SeedWithProvider == Append(SeedUsers, SeedProvider)

\* the fetcher handed to getServices for the listing key: storage.getServices()
ServiceList == [rows |-> {<<i, services[i]>> : i \in Live(services)}]

Fetcher(key) == IF key = KeyStats THEN Stats ELSE ServiceList
Ttl(key)     == IF key = KeyStats THEN 600 ELSE 300

Did(op) == lastOp' = [op |-> op]

\* getCachedStats / getServices up to the await: a hit returns the cached value
CacheLookup(f, key) ==
    /\ fetch[f].pc = "idle"
    /\ IF cache[key].present
       THEN /\ Did("hit")
            /\ UNCHANGED fetch
       ELSE /\ Did("miss")
            /\ fetch' = [fetch EXCEPT ![f] = [NoFetch EXCEPT !.pc = "fetching", !.key = key]]
    /\ UNCHANGED <<extVars, dbVars, httpVars, cache, creating, preChange>>

\* the fetcher's query runs: the promise resolves with the data as it is now
FetcherRead(f) ==
    /\ fetch[f].pc = "fetching"
    /\ fetch' = [fetch EXCEPT ![f].pc = "resolved", ![f].data = Fetcher(fetch[f].key)]
    /\ Did("fetcher")
    /\ UNCHANGED <<extVars, dbVars, httpVars, cache, creating, preChange>>

\* the continuation after the await: cache.set(key, data, ttl)
FetcherResolve(f) ==
    /\ fetch[f].pc = "resolved"
    /\ cache' = [cache EXCEPT ![fetch[f].key] = Entry(fetch[f].data, Ttl(fetch[f].key))]
    /\ preChange' = IF fetch[f].early THEN preChange \cup {fetch[f].key}
                    ELSE preChange \ {fetch[f].key}
    /\ creating' = [c \in DOMAIN creating |->
                      [creating[c] EXCEPT !.readers = @ \ {f}]]
    /\ fetch' = [fetch EXCEPT ![f] = NoFetch]
    /\ Did("set")
    /\ UNCHANGED <<extVars, dbVars, httpVars>>

\* NodeCache drops an entry whose ttl has run out
Expire(k) ==
    /\ cache[k].present
    /\ cache' = [cache EXCEPT ![k] = NoEntry]
    /\ preChange' = preChange \ {k}
    /\ Did("expire")
    /\ UNCHANGED <<extVars, dbVars, httpVars, fetch, creating>>

CreateData ==
    [userId : {"2", "3"}, categoryId : {1, 2}]
        \cup [userId : {"3"}, categoryId : {1}, isApproved : {TRUE}]

\* createService up to the end of its insert
StorageCreateInsert(c, data) ==
    /\ creating[c].pc = "idle"
    /\ Len(services) < MaxServices
    /\ IF ServiceFkViolation(data)
       THEN /\ Did("createService:throw")
            /\ UNCHANGED <<services, creating>>
       ELSE /\ services' = Append(services, ServiceRow(data))
            /\ creating' = [creating EXCEPT ![c] =
                   [pc |-> "inserted",
                    readers |-> {f \in DOMAIN fetch : fetch[f].pc = "resolved"}]]
            /\ Did("insert")
    /\ UNCHANGED <<extVars, users, session, tokens, categories, suggestions, reviews, tickets,
                   httpVars, cache, fetch, preChange>>

\* a suspended fetch that read before the insert, on a key the patterns match
ReadBefore(c, f) ==
    /\ f \in creating[c].readers
    /\ fetch[f].pc = "resolved"
    /\ Includes(fetch[f].key, PatServices) \/ Includes(fetch[f].key, PatStats)

\* createService after the await: the two invalidatePattern calls (the
\* broadcast to websocket clients changes none of these variables)
StorageCreateDone(c) ==
    /\ creating[c].pc = "inserted"
    /\ cache' = InvalidatedOnCreate(cache)
    /\ fetch' = [f \in DOMAIN fetch |->
                   IF ReadBefore(c, f) THEN [fetch[f] EXCEPT !.early = TRUE] ELSE fetch[f]]
    /\ preChange' = {k \in preChange : cache'[k].present}
    /\ creating' = [creating EXCEPT ![c] = NoCreate]
    /\ Did("createService")
    /\ UNCHANGED <<extVars, dbVars, httpVars>>

ServicePartials == {[isApproved |-> FALSE], [isApproved |-> TRUE]}

StorageUpdateService(id, partial) ==
    /\ services' = UpdatedServices(id, partial)
    /\ Did("updateService")
    /\ UNCHANGED <<extVars, users, session, tokens, categories, suggestions, reviews, tickets,
                   httpVars, cacheVars>>

StorageDeleteService(id) ==
    /\ services' = DeletedServices(id)
    /\ Did("deleteService")
    /\ UNCHANGED <<extVars, users, session, tokens, categories, suggestions, reviews, tickets,
                   httpVars, cacheVars>>

StorageApproveService(id) ==
    /\ services' = UpdatedServices(id, ApprovalSet(id))
    /\ Did("approveService")
    /\ UNCHANGED <<extVars, users, session, tokens, categories, suggestions, reviews, tickets,
                   httpVars, cacheVars>>

StorageFeatureService(id, featured) ==
    /\ services' = UpdatedServices(id, [isFeatured |-> featured])
    /\ Did("featureService")
    /\ UNCHANGED <<extVars, users, session, tokens, categories, suggestions, reviews, tickets,
                   httpVars, cacheVars>>

ServiceIds == 1..MaxServices

InitCacheSpec ==
    /\ users = SeedWithProvider
    /\ session = [c \in Clients |-> 0]
    /\ tokens = {}
    /\ categories = SeedCategories
    /\ services = << >>
    /\ suggestions = << >>
    /\ reviews = << >>
    /\ tickets = << >>
    /\ InitHttp
    /\ InitCache
    /\ InitExt

NextCache ==
    \/ \E f \in FetchSlots, k \in {KeyStats, KeyServices} : CacheLookup(f, k)
    \/ \E f \in FetchSlots : FetcherRead(f) \/ FetcherResolve(f)
    \/ \E k \in {KeyStats, KeyServices} : Expire(k)
    \/ \E c \in CreateSlots, data \in CreateData : StorageCreateInsert(c, data)
    \/ \E c \in CreateSlots : StorageCreateDone(c)
    \/ \E id \in ServiceIds, partial \in ServicePartials : StorageUpdateService(id, partial)
    \/ \E id \in ServiceIds : StorageDeleteService(id) \/ StorageApproveService(id)
    \/ \E id \in ServiceIds, b \in BOOLEAN : StorageFeatureService(id, b)

SpecCache == InitCacheSpec /\ [][NextCache]_vars

-----------------------------------------------------------------------------
(* the cache as a key-value store: sessions, rate limits, invalidation *)

SessionDatas == {[test |-> TRUE]}
SessionTtls  == {10, 86400}

setUserSession(userId, sessionData, ttl) ==
    /\ cache' = [cache EXCEPT ![SessionKey(userId)] = Entry(sessionData, ttl)]
    /\ Did("setUserSession")
    /\ UNCHANGED <<extVars, dbVars, httpVars, fetch, creating, preChange>>

clearUserSession(userId) ==
    /\ cache' = [cache EXCEPT ![SessionKey(userId)] = NoEntry]
    /\ Did("clearUserSession")
    /\ UNCHANGED <<extVars, dbVars, httpVars, fetch, creating, preChange>>

\* cache.get(key) as number || 0
Attempts(key) == IF cache[key].present THEN cache[key].value ELSE 0

checkUserRateLimit(userId, action, maxAttempts) ==
    LET key == RateLimitKey(userId, action) IN
    /\ IF Attempts(key) >= maxAttempts
       THEN /\ Did("checkUserRateLimit:false")
            /\ UNCHANGED cache
       ELSE /\ Did("checkUserRateLimit:true")
            /\ cache' = [cache EXCEPT ![key] = Entry(Attempts(key) + 1, 900)]
    /\ UNCHANGED <<extVars, dbVars, httpVars, fetch, creating, preChange>>

Patterns ==
    {<< >>, <<"1">>, <<"2">>, <<"1","2">>, <<"l","o","g","i","n">>, PatStats, PatServices,
     <<"s",":">>, <<"n",":","1">>}

invalidatePattern(pattern) ==
    /\ cache' = Invalidated(cache, pattern)
    /\ lastOp' = [op |-> "invalidatePattern", pattern |-> pattern,
                  deleted |-> MatchingKeys(cache, pattern)]
    /\ preChange' = {k \in preChange : cache'[k].present}
    /\ UNCHANGED <<extVars, dbVars, httpVars, fetch, creating>>

NextCacheKeys ==
    \/ \E u \in CacheUserIds, d \in SessionDatas, t \in SessionTtls : setUserSession(u, d, t)
    \/ \E u \in CacheUserIds : clearUserSession(u)
    \/ \E u \in CacheUserIds, a \in CacheActions : checkUserRateLimit(u, a, MaxAttempts)
    \/ \E p \in Patterns : invalidatePattern(p)
    \/ \E f \in FetchSlots : CacheLookup(f, KeyStats)
    \/ \E f \in FetchSlots : FetcherRead(f) \/ FetcherResolve(f)
    \/ \E k \in CacheKeys : Expire(k)

SpecCacheKeys == InitCacheSpec /\ [][NextCacheKeys]_vars

-----------------------------------------------------------------------------
(* Moderation: the routes reserved to administrators *)

\* requireRole(roles): `!req.user || !roles.includes(req.user.role)` answers 403
RequireRole(roles, user) == user.id # 0 /\ user.role \in roles
RequireAdmin(user)    == RequireRole({"admin"}, user)
RequireProvider(user) == RequireRole({"provider", "admin"}, user)

AdminAccessAny(user) == TRUE

\* the handlers' own test: `user?.role !== 'admin'` answers 403
AdminAccess(user) == user.role = "admin"

CategoryKinds == {"catCreate", "catUpdate", "catDelete"}
ParsedKinds   == {"catCreate", "catUpdate"}
InlineKinds   == {"approve", "feature", "sugStatus", "revApprove", "ticketsList", "catDelete"}
ModKinds      == CategoryKinds \cup InlineKinds

ModBodies(kind) ==
    CASE kind = "approve"    -> [valid : {TRUE}, id : {1, 2}]
      [] kind = "feature"    -> [valid : {TRUE}, id : {1, 2}, featured : BOOLEAN]
      [] kind = "catCreate"  -> [valid : BOOLEAN, name : {"plomeria", "aseo"}]
      [] kind = "catUpdate"  -> [valid : BOOLEAN, id : {1, 2},
                                 partial : {[isActive |-> FALSE], [name |-> "aseo"]}]
      [] kind = "catDelete"  -> [valid : {TRUE}, id : {1, 2}]
      [] kind = "sugStatus"  -> [valid : {TRUE}, id : {1}, status : {"reviewed", "resolved"}]
      [] kind = "revApprove" -> [valid : {TRUE}, id : {1, 2}]
      [] OTHER               -> {NoBody}

\* the headers of the moderation requests: none (the session decides), a
\* malformed one, the administrator's token and the provider's token
ModHeaders == {NoHdr, GarbageHdr, TokenHdr(1, "fresh"), TokenHdr(3, "fresh")}

SeedServices    == << ServiceRow([userId |-> "3", categoryId |-> 1]) >>
SeedSuggestions == << [deleted |-> FALSE, status |-> "pending"] >>
SeedReviews     == << [deleted |-> FALSE, serviceId |-> 1, userId |-> "2", isApproved |-> FALSE] >>
SeedTickets     == << [deleted |-> FALSE, status |-> "open"] >>

\* categories.name is unique
CategoryNameTaken(name, except) ==
    \E i \in Live(categories) \ {except} : categories[i].name = name

\* services.category_id references categories.id
CategoryInUse(id) == \E i \in Live(services) : services[i].categoryId = id

\* authenticate, then requireAdmin where the route mounts it, then the
\* schema's parse where the handler starts with one
ModRecv(r) ==
    /\ req[r].kind \in ModKinds /\ req[r].pc = "recv"
    /\ LET user == Authenticate(r)
       IN IF user.id = 0
          THEN Respond(r, 401, AuthFailure(r), NoUser)
          ELSE IF req[r].kind \in CategoryKinds /\ ~RequireAdmin(user)
          THEN Respond(r, 403, "forbidden", user)
          ELSE IF req[r].kind \in ParsedKinds /\ ~req[r].body.valid
          THEN Respond(r, 500, "validation", user)
          ELSE req' = [req EXCEPT ![r].user = user,
                                  ![r].pc = IF req[r].kind \in InlineKinds
                                            THEN "role" ELSE "op"]
    /\ UNCHANGED <<extVars, dbVars, cacheVars, lastOp>>

\* the result of storage.getUser(req.user.id.toString()) and the handler's test
ModRole(r) ==
    /\ req[r].kind \in InlineKinds /\ req[r].pc = "role"
    /\ IF AdminAccess(GetUser(req[r].user.id))
       THEN Goto(r, "op")
       ELSE Respond(r, 403, "admin", req[r].user)
    /\ UNCHANGED <<extVars, dbVars, cacheVars, lastOp>>

\* what the storage call of each route does to the tables
ModWrites(r) ==
    LET kind == req[r].kind
        body == req[r].body
    IN /\ services' =
              CASE kind = "approve" -> UpdatedServices(body.id, ApprovalSet(body.id))
                [] kind = "feature" -> UpdatedServices(body.id, [isFeatured |-> body.featured])
                [] OTHER -> services
       /\ categories' =
              CASE kind = "catCreate" ->
                       Append(categories,
                              [deleted |-> FALSE, name |-> body.name, isActive |-> TRUE])
                [] kind = "catUpdate" /\ body.id \in Live(categories) ->
                       [categories EXCEPT ![body.id] = Merge(@, body.partial)]
                [] kind = "catDelete" /\ body.id \in Live(categories) ->
                       [categories EXCEPT ![body.id] = NoRow]
                [] OTHER -> categories
       /\ suggestions' =
              IF kind = "sugStatus" /\ body.id \in Live(suggestions)
              THEN [suggestions EXCEPT ![body.id].status = body.status]
              ELSE suggestions
       /\ reviews' =
              IF kind = "revApprove" /\ body.id \in Live(reviews)
              THEN [reviews EXCEPT ![body.id].isApproved = TRUE]
              ELSE reviews

\* the statement violates a constraint of the schema
ModThrows(r) ==
    LET kind == req[r].kind
        body == req[r].body
    IN \/ kind = "catCreate" /\ CategoryNameTaken(body.name, 0)
       \/ /\ kind = "catUpdate" /\ body.id \in Live(categories)
          /\ "name" \in DOMAIN body.partial
          /\ CategoryNameTaken(body.partial.name, body.id)
       \/ kind = "catDelete" /\ CategoryInUse(body.id)

\* the result of the route's storage call, and the response
ModOp(r) ==
    /\ req[r].kind \in ModKinds /\ req[r].pc = "op"
    /\ IF ModThrows(r)
       THEN /\ Respond(r, 500, "db", req[r].user)
            /\ UNCHANGED <<services, categories, suggestions, reviews>>
       ELSE /\ Respond(r, 200, "ok", req[r].user)
            /\ ModWrites(r)
    /\ UNCHANGED <<extVars, users, session, tokens, tickets, cacheVars, lastOp>>

ArriveMod(r, kind, hdr, body) ==
    /\ kind = "catCreate" => Len(categories) < MaxCategories
    /\ Arrive(r, kind, "c1", hdr, body)

ModReqs == {"r1"}

InitMod ==
    /\ users = SeedWithProvider
    /\ session = [c \in Clients |-> 2]
    /\ tokens = {1, 3}
    /\ categories = SeedCategories
    /\ services = SeedServices
    /\ suggestions = SeedSuggestions
    /\ reviews = SeedReviews
    /\ tickets = SeedTickets
    /\ InitHttp
    /\ InitCache
    /\ InitExt

NextMod ==
    \/ \E r \in ModReqs, kind \in ModKinds, hdr \in ModHeaders :
           \E body \in ModBodies(kind) : ArriveMod(r, kind, hdr, body)
    \/ \E r \in ModReqs : ModRecv(r)
    \/ \E r \in ModReqs : ModRole(r)
    \/ \E r \in ModReqs : ModOp(r)

SpecMod == InitMod /\ [][NextMod]_vars

-----------------------------------------------------------------------------
(* POST /api/services *)

SvcHeaders == ModHeaders

SvcBodies ==
    [valid : BOOLEAN,
     data : {[categoryId |-> 1], [categoryId |-> 2],
             [categoryId |-> 1, isApproved |-> TRUE],
             [categoryId |-> 1, userId |-> "1"]}]

\* { ...req.body, userId: req.user.id.toString() }
ServiceData(body, user) ==
    [f \in DOMAIN body.data \cup {"userId"} |->
        IF f = "userId" THEN IdToString(user.id) ELSE body.data[f]]

\* authenticate, then insertServiceSchema.parse; the route mounts no role test
SvcRecv(r) ==
    /\ req[r].kind = "svcCreate" /\ req[r].pc = "recv"
    /\ LET user == Authenticate(r)
       IN IF user.id = 0
          THEN Respond(r, 401, AuthFailure(r), NoUser)
          ELSE IF ~req[r].body.valid
          THEN Respond(r, 500, "validation", user)
          ELSE req' = [req EXCEPT ![r].user = user, ![r].pc = "insert"]
    /\ UNCHANGED <<extVars, dbVars, cacheVars, lastOp>>

\* createService up to the end of its insert
SvcInsert(r) ==
    /\ req[r].kind = "svcCreate" /\ req[r].pc = "insert"
    /\ LET data == ServiceData(req[r].body, req[r].user)
       IN IF ServiceFkViolation(data)
          THEN /\ Respond(r, 500, "db", req[r].user)
               /\ UNCHANGED services
          ELSE /\ services' = Append(services, ServiceRow(data))
               /\ Goto(r, "created")
    /\ UNCHANGED <<extVars, users, session, tokens, categories, suggestions, reviews, tickets,
                   cacheVars, lastOp>>

\* createService after the await (invalidatePattern twice), then res.json(service)
SvcCreated(r) ==
    /\ req[r].kind = "svcCreate" /\ req[r].pc = "created"
    /\ cache' = InvalidatedOnCreate(cache)
    /\ Respond(r, 200, "ok", req[r].user)
    /\ Did("createService")
    /\ UNCHANGED <<extVars, dbVars, fetch, creating, preChange>>

ArriveSvc(r, hdr, body) ==
    /\ Len(services) + Cardinality({q \in Reqs : req[q].kind = "svcCreate" /\ ~Free(q)})
           < MaxServices
    /\ Arrive(r, "svcCreate", "c1", hdr, body)

SvcReqs == {"r1", "r2"}

InitServices ==
    /\ users = SeedWithProvider
    /\ session = [c \in Clients |-> 2]
    /\ tokens = {1, 3}
    /\ categories = SeedCategories
    /\ services = << >>
    /\ suggestions = << >>
    /\ reviews = << >>
    /\ tickets = << >>
    /\ InitHttp
    /\ InitCache
    /\ InitExt

NextServices ==
    \/ \E r \in SvcReqs, hdr \in SvcHeaders, body \in SvcBodies : ArriveSvc(r, hdr, body)
    \/ \E r \in SvcReqs : SvcRecv(r)
    \/ \E r \in SvcReqs : SvcInsert(r)
    \/ \E r \in SvcReqs : SvcCreated(r)

SpecServices == InitServices /\ [][NextServices]_vars

-----------------------------------------------------------------------------
(* POST /api/support/tickets *)

TicketStatuses == {"open", "in_progress", "resolved", "closed"}

\* the status of the request body: absent, one of the enum, or another string
TicketBodies == [valid : BOOLEAN, status : TicketStatuses \cup {"absent", "bogus"}]

\* insertSupportTicketSchema.parse: status is an optional member of the enum
TicketParses(body) == body.valid /\ body.status \in TicketStatuses \cup {"absent"}

DefaultStatus == "open"

\* the row the insert stores: the column default where the body has no status
TicketRow(body) ==
    [deleted |-> FALSE,
     status |-> IF body.status = "absent" THEN DefaultStatus ELSE body.status]

\* the route mounts no middleware; the handler parses, then awaits the insert
TicketRecv(r) ==
    /\ req[r].kind = "ticket" /\ req[r].pc = "recv"
    /\ IF TicketParses(req[r].body)
       THEN Goto(r, "insert")
       ELSE Respond(r, 500, "validation", NoUser)
    /\ UNCHANGED <<extVars, dbVars, cacheVars, lastOp>>

\* createSupportTicket: ticketNumber is `ST-${Date.now()}` and unique, so the
\* insert throws when the last ticket was numbered in the same millisecond
TicketInsert(r, sameMs) ==
    /\ req[r].kind = "ticket" /\ req[r].pc = "insert"
    /\ IF sameMs /\ tickets # << >>
       THEN /\ Respond(r, 500, "db", NoUser)
            /\ UNCHANGED tickets
       ELSE /\ tickets' = Append(tickets, TicketRow(req[r].body))
            /\ Respond(r, 200, "ok", NoUser)
    /\ UNCHANGED <<extVars, users, session, tokens, categories, services, suggestions, reviews,
                   cacheVars, lastOp>>

\* updateSupportTicket(id, { status }): set({ ...ticket }) where id matches;
\* no route calls it
updateSupportTicket(id, status) ==
    /\ tickets' = IF id \in Live(tickets)
                  THEN [tickets EXCEPT ![id] = Merge(@, [status |-> status])]
                  ELSE tickets
    /\ Did("updateSupportTicket")
    /\ UNCHANGED <<extVars, users, session, tokens, categories, services, suggestions, reviews,
                   httpVars, cacheVars>>

ArriveTicket(r, body) ==
    /\ Len(tickets) + Cardinality({q \in Reqs : req[q].kind = "ticket" /\ ~Free(q)})
           < MaxTickets
    /\ Arrive(r, "ticket", "c1", NoHdr, body)

TicketReqs == {"r1", "r2"}

InitTicket == InitDb /\ InitHttp /\ InitCache /\ InitExt

NextTicket ==
    \/ \E r \in TicketReqs, body \in TicketBodies : ArriveTicket(r, body)
    \/ \E r \in TicketReqs : TicketRecv(r)
    \/ \E r \in TicketReqs, sameMs \in BOOLEAN : TicketInsert(r, sameMs)
    \/ \E id \in 1..MaxTickets, status \in TicketStatuses : updateSupportTicket(id, status)

SpecTicket == InitTicket /\ [][NextTicket]_vars

-----------------------------------------------------------------------------
(* WebSocketManager: connections and their registration *)

\* the token of the connection url: none, or one the clients can hold
WsTokens == {NoHdr, TokenHdr(1, "fresh"), TokenHdr(2, "fresh"), TokenHdr(2, "old")}

\* verifyClient: req.userId is decoded.userId.toString() when verifyToken accepts
\* the token and is left undefined otherwise.  verifyClient is an async function
\* of one parameter, so the server takes the promise it returns as its answer
\* and accepts the connection in both cases.
VerifyClientUserId(token) ==
    IF token.scheme = "bearer" /\ VerifyToken(token) # 0
    THEN IdToString(VerifyToken(token))
    ELSE "undefined"

\* generateConnectionId: `conn_${Date.now()}_${Math.random().toString(36).substring(7)}`
GenerateConnectionId(rnd) == <<now, rnd>>

\* handleConnection, to the end of its synchronous body
HandleConnection(w, token, rnd) ==
    LET userId       == VerifyClientUserId(token)
        connectionId == GenerateConnectionId(rnd)
    IN /\ sockets[w].state = "none"
       /\ connections' = [connections EXCEPT ![connectionId] = w]
       /\ userConnections' =
              [userConnections EXCEPT ![userId] =
                  [has |-> TRUE, ids |-> userConnections[userId].ids \cup {connectionId}]]
       /\ sockets' = [sockets EXCEPT ![w] =
              [state |-> "open", userId |-> userId, connectionId |-> connectionId]]
       /\ UNCHANGED <<dbVars, httpVars, cacheVars, lastOp, now, payVars, tfaVars>>

\* userConnections.get(userId)?.delete(connectionId)
WithoutConnection(conns, connectionId) ==
    IF conns.has THEN [conns EXCEPT !.ids = @ \ {connectionId}] ELSE conns

\* if (userConnections.get(userId)?.size === 0) userConnections.delete(userId)
Pruned(conns) == IF conns.has /\ conns.ids = {} THEN NoConns ELSE conns

\* the 'close' handler of the socket
HandleClose(w) ==
    LET userId       == sockets[w].userId
        connectionId == sockets[w].connectionId
    IN /\ sockets[w].state \in {"open", "closing"}
       /\ connections' = [connections EXCEPT ![connectionId] = "none"]
       /\ userConnections' =
              [userConnections EXCEPT ![userId] = Pruned(WithoutConnection(@, connectionId))]
       /\ sockets' = [sockets EXCEPT ![w].state = "closed"]
       /\ UNCHANGED <<dbVars, httpVars, cacheVars, lastOp, now, payVars, tfaVars>>

\* a millisecond passes
Tick ==
    /\ now < MaxMs
    /\ now' = now + 1
    /\ UNCHANGED <<dbVars, httpVars, cacheVars, lastOp, connections, userConnections,
                   sockets, payVars, tfaVars>>

InitWs ==
    /\ users = SeedUsers
    /\ session = [c \in Clients |-> 0]
    /\ tokens = {1, 2}
    /\ categories = << >>
    /\ services = << >>
    /\ suggestions = << >>
    /\ reviews = << >>
    /\ tickets = << >>
    /\ InitHttp
    /\ InitCache
    /\ InitExt

NextWs ==
    \/ \E w \in Sockets, token \in WsTokens, rnd \in Rnds : HandleConnection(w, token, rnd)
    \/ \E w \in Sockets : HandleClose(w)
    \/ Tick

SpecWs == InitWs /\ [][NextWs]_vars

\* the socket starts closing: readyState is no longer OPEN, the 'close' event
\* has not been emitted yet
SocketClosing(w) ==
    /\ sockets[w].state = "open"
    /\ sockets' = [sockets EXCEPT ![w].state = "closing"]
    /\ UNCHANGED <<dbVars, httpVars, cacheVars, lastOp, connections, userConnections,
                   now, payVars, tfaVars>>

\* `ws && ws.readyState === WebSocket.OPEN` for the socket stored under an id
OpenSocketAt(connectionId) ==
    /\ connections[connectionId] # "none"
    /\ sockets[connections[connectionId]].state = "open"

\* sendToUser(userId, message): the sockets ws.send is called on
SendToUserTargets(userId) ==
    IF ~userConnections[userId].has THEN {}
    ELSE {connections[id] : id \in {i \in userConnections[userId].ids : OpenSocketAt(i)}}

\* broadcastServiceUpdate: connections.forEach, the sockets ws.send is called on
BroadcastTargets == {connections[id] : id \in {i \in ConnIds : OpenSocketAt(i)}}

\* sendToUser(userId, message)
SendToUser(userId) ==
    /\ lastOp' = [op |-> "sendToUser", userId |-> userId, sent |-> SendToUserTargets(userId)]
    /\ UNCHANGED <<dbVars, httpVars, cacheVars, extVars>>

\* broadcastServiceUpdate(serviceId, type)
BroadcastServiceUpdate ==
    /\ lastOp' = [op |-> "broadcastServiceUpdate", userId |-> "undefined",
                  sent |-> BroadcastTargets]
    /\ UNCHANGED <<dbVars, httpVars, cacheVars, extVars>>

SendSockets == {"w1", "w2"}

NextWsSend ==
    \/ \E w \in SendSockets, token \in WsTokens, rnd \in Rnds : HandleConnection(w, token, rnd)
    \/ \E w \in SendSockets : SocketClosing(w)
    \/ \E w \in SendSockets : HandleClose(w)
    \/ \E userId \in WsUserIds : SendToUser(userId)
    \/ BroadcastServiceUpdate
    \/ Tick

SpecWsSend == InitWs /\ [][NextWsSend]_vars

-----------------------------------------------------------------------------
(* POST /api/payments/pse and createPSEPayment *)

\* req.body.amount: a number, or something that is not one (undefined, 'abc')
Amount(n)    == [isNumber |-> TRUE, value |-> n]
NotANumber   == [isNumber |-> FALSE, value |-> 0]
PseAmounts   == {Amount(4999), Amount(5000), NotANumber}
PseDocTypes  == {"CC", "NIT", "TI"}
PseBodies    == [amount : PseAmounts, documentType : PseDocTypes]

PseAmountTooLowOrEqual(amount) == amount.isNumber /\ amount.value <= 5000

\* `payment.amount < 5000`: false when the amount is not a number
PseAmountTooLow(amount) == amount.isNumber /\ amount.value < 5000

\* `!['CC', 'CE', 'NIT'].includes(payment.documentType)`
PseDocTypeInvalid(documentType) == documentType \notin {"CC", "CE", "NIT"}

\* `pse_${Date.now()}_${Math.random().toString(36).substring(7)}`
PsePaymentId(rnd) == <<now, rnd>>

\* the record createPSEPayment hands to storage.createPaymentRecord
PseRecord(paymentId, payment) ==
    [id |-> paymentId, amount |-> payment.amount, currency |-> "COP",
     status |-> "pending", paymentMethod |-> "pse",
     documentType |-> payment.documentType]

\* the PaymentIntent createPSEPayment returns
PseIntent(paymentId, payment) ==
    [id |-> paymentId, amount |-> payment.amount, currency |-> "COP",
     status |-> "pending", paymentMethod |-> "pse"]

\* storage.createPaymentRecord(record): the record is stored
CreatePaymentRecord(record) == Append(payments, record)

\* the handler down to the await in createPSEPayment: the id, the two checks
PseValidate(r, rnd) ==
    /\ req[r].kind = "pse" /\ req[r].pc = "recv"
    /\ IF PseAmountTooLow(req[r].body.amount)
       THEN RespondWith(r, 500, "amount", NoBody)
       ELSE IF PseDocTypeInvalid(req[r].body.documentType)
       THEN RespondWith(r, 500, "documentType", NoBody)
       ELSE req' = [req EXCEPT ![r].pc = "record",
                               ![r].body = [payment |-> req[r].body,
                                            paymentId |-> PsePaymentId(rnd)]]
    /\ UNCHANGED <<dbVars, cacheVars, lastOp, wsVars, payVars, tfaVars>>

\* the record is written, createPSEPayment returns the intent, res.json(payment)
PseWrite(r) ==
    /\ req[r].kind = "pse" /\ req[r].pc = "record"
    /\ payments' = CreatePaymentRecord(PseRecord(req[r].body.paymentId, req[r].body.payment))
    /\ RespondWith(r, 200, "ok", PseIntent(req[r].body.paymentId, req[r].body.payment))
    /\ UNCHANGED <<dbVars, cacheVars, lastOp, wsVars, tfaVars, stripe>>

ArrivePse(r, body) ==
    /\ Free(r)
    /\ Len(payments) + Cardinality({q \in Reqs : req[q].kind = "pse" /\ ~Free(q)})
           < MaxPayments
    /\ req' = [req EXCEPT ![r] = [Idle EXCEPT !.kind = "pse", !.pc = "recv", !.body = body]]
    /\ UNCHANGED <<dbVars, cacheVars, lastOp, extVars>>

PseReqs == {"r1", "r2"}

InitPse == InitDb /\ InitHttp /\ InitCache /\ InitExt

NextPse ==
    \/ \E r \in PseReqs, body \in PseBodies : ArrivePse(r, body)
    \/ \E r \in PseReqs, rnd \in Rnds : PseValidate(r, rnd)
    \/ \E r \in PseReqs : PseWrite(r)
    \/ Tick

SpecPse == InitPse /\ [][NextPse]_vars

-----------------------------------------------------------------------------
(* The service catalogue: listing, reading, creating, changing, deleting and
   approving services *)

OwnerKinds   == {"svcPut", "svcDelete"}
PublicKinds  == {"svcList", "svcGet"}
CatalogKinds == OwnerKinds \cup PublicKinds \cup {"svcMine", "svcPending"}

\* no header (the session's user, a plain user), the administrator's token,
\* the token of the provider who owns the seeded service
CatalogHeaders == {NoHdr, TokenHdr(1, "fresh"), TokenHdr(3, "fresh")}

\* req.params.id, req.body and req.query of each route; `role` is the handler's
\* local `user?.role`, not yet read when the request arrives
CatalogBodies(kind) ==
    CASE kind = "svcPut"    -> [valid : BOOLEAN, id : 1..MaxServices, role : {"none"},
                                partial : {[isApproved |-> TRUE, isFeatured |-> TRUE],
                                           [userId |-> "2"]}]
      [] kind = "svcDelete" -> [valid : {TRUE}, id : 1..MaxServices, role : {"none"}]
      [] kind = "svcList"   -> [valid : {TRUE}, approved : {"undefined", "true", "false"}]
      [] kind = "svcGet"    -> [valid : {TRUE}, id : 1..MaxServices]
      [] kind = "svcPending" -> [valid : {TRUE}, role : {"none"}]
      [] OTHER              -> {NoBody}

CatalogCreateBodies == {body \in SvcBodies : body.valid}

\* the rows a select returns, each with its id
Rows(ids) == [rows |-> {<<i, services[i]>> : i \in ids}]

\* `const { approved = 'true' } = req.query; approved: approved === 'true'`
ApprovedFilter(approved) ==
    (IF approved = "undefined" THEN "true" ELSE approved) = "true"

\* storage.getServices({ approved }): eq(services.isApproved, filters.approved);
\* the other filters of the query only narrow the result
GetServices(approved) == {i \in Live(services) : services[i].isApproved = approved}

\* storage.getServiceById(id)
GetServiceById(id) == IF id \in Live(services) THEN {id} ELSE {}

\* storage.getServicesByUserId(userId)
GetServicesByUserId(userId) == {i \in Live(services) : services[i].userId = userId}

SvcMayModifyAnyone(service, user, role) == TRUE

\* PUT and DELETE go on unless
\* `service.userId !== req.user.id.toString() && user?.role !== 'admin'`
SvcMayModify(service, user, role) ==
    ~(service.userId # IdToString(user.id) /\ role # "admin")

\* GET /api/services: no middleware; the query, the select, res.json(services)
SvcList(r) ==
    /\ req[r].kind = "svcList" /\ req[r].pc = "recv"
    /\ RespondWith(r, 200, "ok", Rows(GetServices(ApprovedFilter(req[r].body.approved))))
    /\ UNCHANGED <<extVars, dbVars, cacheVars, lastOp>>

\* GET /api/services/:id: no middleware; 404 when no row has the id
SvcGet(r) ==
    /\ req[r].kind = "svcGet" /\ req[r].pc = "recv"
    /\ IF GetServiceById(req[r].body.id) = {}
       THEN RespondWith(r, 404, "missing", NoBody)
       ELSE RespondWith(r, 200, "ok", Rows(GetServiceById(req[r].body.id)))
    /\ UNCHANGED <<extVars, dbVars, cacheVars, lastOp>>

\* authenticate on the routes that mount it
CatalogAuth(r) ==
    /\ req[r].kind \in OwnerKinds \cup {"svcMine", "svcPending"} /\ req[r].pc = "recv"
    /\ LET user == Authenticate(r)
       IN IF user.id = 0
          THEN Respond(r, 401, AuthFailure(r), NoUser)
          ELSE req' = [req EXCEPT ![r].user = user,
                                  ![r].pc = IF req[r].kind = "svcMine" THEN "read" ELSE "user"]
    /\ UNCHANGED <<extVars, dbVars, cacheVars, lastOp>>

\* `const user = await storage.getUser(req.user.id.toString())`
CatalogGetUser(r) ==
    /\ req[r].kind \in OwnerKinds \cup {"svcPending"} /\ req[r].pc = "user"
    /\ IF req[r].kind = "svcPending" /\ ~AdminAccess(GetUser(req[r].user.id))
       THEN Respond(r, 403, "admin", req[r].user)
       ELSE req' = [req EXCEPT ![r].body.role = GetUser(req[r].user.id).role,
                               ![r].pc = IF req[r].kind = "svcPending"
                                         THEN "read" ELSE "service"]
    /\ UNCHANGED <<extVars, dbVars, cacheVars, lastOp>>

\* GET /api/user/services and GET /api/admin/services/pending: the select
CatalogRead(r) ==
    /\ req[r].kind \in {"svcMine", "svcPending"} /\ req[r].pc = "read"
    /\ req' = [req EXCEPT ![r] = [Idle EXCEPT
                  !.kind = req[r].kind, !.pc = "done", !.status = 200, !.cause = "ok",
                  !.user = req[r].user,
                  !.body = IF req[r].kind = "svcMine"
                           THEN Rows(GetServicesByUserId(IdToString(req[r].user.id)))
                           ELSE Rows(GetServices(FALSE))]]
    /\ UNCHANGED <<extVars, dbVars, cacheVars, lastOp>>

\* PUT and DELETE after `await storage.getServiceById(id)`: 404, 403, and for
\* PUT insertServiceSchema.partial().parse(req.body)
SvcCheck(r) ==
    /\ req[r].kind \in OwnerKinds /\ req[r].pc = "service"
    /\ IF GetServiceById(req[r].body.id) = {}
       THEN Respond(r, 404, "missing", req[r].user)
       ELSE IF ~SvcMayModify(services[req[r].body.id], req[r].user, req[r].body.role)
       THEN Respond(r, 403, "owner", req[r].user)
       ELSE IF ~req[r].body.valid
       THEN Respond(r, 500, "validation", req[r].user)
       ELSE Goto(r, "write")
    /\ UNCHANGED <<extVars, dbVars, cacheVars, lastOp>>

\* storage.updateService(id, serviceData) or storage.deleteService(id), res.json
SvcWrite(r) ==
    /\ req[r].kind \in OwnerKinds /\ req[r].pc = "write"
    /\ services' = IF req[r].kind = "svcPut"
                   THEN UpdatedServices(req[r].body.id, req[r].body.partial)
                   ELSE DeletedServices(req[r].body.id)
    /\ Respond(r, 200, "ok", req[r].user)
    /\ UNCHANGED <<extVars, users, session, tokens, categories, suggestions, reviews, tickets,
                   cacheVars, lastOp>>

ArriveCatalog(r, kind, hdr, body) ==
    Arrive(r, kind, "c1", IF kind \in PublicKinds THEN NoHdr ELSE hdr, body)

CatalogReqs == {"r1"}

InitCatalog ==
    /\ users = SeedWithProvider
    /\ session = [c \in Clients |-> 2]
    /\ tokens = {1, 3}
    /\ categories = SeedCategories
    /\ services = SeedServices
    /\ suggestions = << >>
    /\ reviews = << >>
    /\ tickets = << >>
    /\ InitHttp
    /\ InitCache
    /\ InitExt

NextCatalog ==
    \/ \E r \in CatalogReqs, hdr \in CatalogHeaders, body \in CatalogCreateBodies :
           ArriveSvc(r, hdr, body)
    \/ \E r \in CatalogReqs, kind \in CatalogKinds, hdr \in CatalogHeaders :
           \E body \in CatalogBodies(kind) : ArriveCatalog(r, kind, hdr, body)
    \/ \E r \in CatalogReqs, kind \in {"approve", "feature"}, hdr \in CatalogHeaders :
           \E body \in ModBodies(kind) : ArriveMod(r, kind, hdr, body)
    \/ \E r \in CatalogReqs : SvcRecv(r)
    \/ \E r \in CatalogReqs : SvcInsert(r)
    \/ \E r \in CatalogReqs : SvcCreated(r)
    \/ \E r \in CatalogReqs : SvcList(r)
    \/ \E r \in CatalogReqs : SvcGet(r)
    \/ \E r \in CatalogReqs : CatalogAuth(r)
    \/ \E r \in CatalogReqs : CatalogGetUser(r)
    \/ \E r \in CatalogReqs : CatalogRead(r)
    \/ \E r \in CatalogReqs : SvcCheck(r)
    \/ \E r \in CatalogReqs : SvcWrite(r)
    \/ \E r \in CatalogReqs : ModRecv(r)
    \/ \E r \in CatalogReqs : ModRole(r)
    \/ \E r \in CatalogReqs : ModOp(r)

SpecCatalog == InitCatalog /\ [][NextCatalog]_vars

\* PUT and DELETE alone, two requests at a time
OwnerReqs == {"r1", "r2"}

NextOwner ==
    \/ \E r \in OwnerReqs, kind \in OwnerKinds, hdr \in CatalogHeaders :
           \E body \in CatalogBodies(kind) : ArriveCatalog(r, kind, hdr, body)
    \/ \E r \in OwnerReqs : CatalogAuth(r)
    \/ \E r \in OwnerReqs : CatalogGetUser(r)
    \/ \E r \in OwnerReqs : SvcCheck(r)
    \/ \E r \in OwnerReqs : SvcWrite(r)

SpecOwner == InitCatalog /\ [][NextOwner]_vars

-----------------------------------------------------------------------------
(* Two-factor authentication: setup, enable, and the login route *)

\* speakeasy.generateSecret().base32
Secrets == {"s1", "s2"}

\* the code an authenticator shows for a secret within the accepted window
Totp(secret) == IF secret = "s1" THEN "t1" ELSE IF secret = "s2" THEN "t2" ELSE "-"

\* req.body.token
TfaTokens == {"t1", "t2", "bad"}

\* the eight codes generate2FASecret draws
BackupCodes == {"B1"}

Verify2FATokenAlways(secret, token) == TRUE

\* verify2FAToken: speakeasy.totp.verify({ secret, token, window: 2 })
Verify2FAToken(secret, token) == token = Totp(secret)

\* the record generate2FASecret saves: { secret, backupCodes, isActive: false }
TempTwoFactor(secret) ==
    [exists |-> TRUE, secret |-> secret, backupCodes |-> BackupCodes, isActive |-> FALSE]

\* storage.saveTempTwoFactorSecret(userId, data): the user's pending secret
SaveTempTwoFactorSecret(userId, data) == [tempTwoFactor EXCEPT ![userId] = data]

\* storage.getTempTwoFactorSecret(userId): the pending secret, if any
GetTempTwoFactorSecret(userId) == tempTwoFactor[userId]

\* storage.activateTwoFactor(userId, data): the user's two-factor record, active
ActivateTwoFactor(userId, data) ==
    [userTwoFactor EXCEPT ![userId] = [data EXCEPT !.isActive = TRUE]]

\* storage.deleteTempTwoFactorSecret(userId): no pending secret any more
DeleteTempTwoFactorSecret(userId) == [tempTwoFactor EXCEPT ![userId] = NoTwoFactor]

\* storage.getUserTwoFactor(userId)
GetUserTwoFactor(userId) == userTwoFactor[userId]

TfaKinds   == {"tfaSetup", "tfaEnable"}
TfaHeaders == {NoHdr, TokenHdr(1, "fresh")}
TfaBodies(kind) ==
    IF kind = "tfaEnable"
    THEN [valid : {TRUE}, token : TfaTokens, tempData : {NoTwoFactor}]
    ELSE [valid : {TRUE}, secret : {"-"}]
TfaLoginBodies == {body \in LoginBodies : body.valid /\ body.username # "zoe"}

\* authenticate on the two routes
TfaAuth(r) ==
    /\ req[r].kind \in TfaKinds /\ req[r].pc = "recv"
    /\ LET user == Authenticate(r)
       IN IF user.id = 0
          THEN Respond(r, 401, AuthFailure(r), NoUser)
          ELSE req' = [req EXCEPT ![r].user = user,
                                  ![r].pc = IF req[r].kind = "tfaSetup" THEN "user" ELSE "temp"]
    /\ UNCHANGED <<extVars, dbVars, cacheVars, lastOp>>

\* setup: the result of storage.getUser, the admin test, then generate2FASecret
\* down to `await QRCode.toDataURL`: the secret and the backup codes are drawn
TfaSetupUser(r, secret) ==
    /\ req[r].kind = "tfaSetup" /\ req[r].pc = "user"
    /\ IF ~AdminAccess(GetUser(req[r].user.id))
       THEN Respond(r, 403, "admin", req[r].user)
       ELSE req' = [req EXCEPT ![r].body.secret = secret, ![r].pc = "save"]
    /\ UNCHANGED <<extVars, dbVars, cacheVars, lastOp>>

\* generate2FASecret: storage.saveTempTwoFactorSecret, then the route's res.json
TfaSetupSave(r) ==
    /\ req[r].kind = "tfaSetup" /\ req[r].pc = "save"
    /\ tempTwoFactor' = SaveTempTwoFactorSecret(IdToString(req[r].user.id),
                                                TempTwoFactor(req[r].body.secret))
    /\ Respond(r, 200, "ok", req[r].user)
    /\ UNCHANGED <<dbVars, cacheVars, lastOp, wsVars, payVars, userTwoFactor>>

\* enable2FA: the result of getTempTwoFactorSecret, `if (!tempData) return false`,
\* `if (!isValid) return false`; false makes the route answer 400
TfaEnableRead(r) ==
    /\ req[r].kind = "tfaEnable" /\ req[r].pc = "temp"
    /\ LET tempData == GetTempTwoFactorSecret(IdToString(req[r].user.id))
       IN IF ~tempData.exists
          THEN Respond(r, 400, "pending", req[r].user)
          ELSE IF ~Verify2FAToken(tempData.secret, req[r].body.token)
          THEN Respond(r, 400, "token", req[r].user)
          ELSE req' = [req EXCEPT ![r].body.tempData = tempData, ![r].pc = "activate"]
    /\ UNCHANGED <<extVars, dbVars, cacheVars, lastOp>>

\* enable2FA: storage.activateTwoFactor(userId, tempData)
TfaEnableActivate(r) ==
    /\ req[r].kind = "tfaEnable" /\ req[r].pc = "activate"
    /\ userTwoFactor' = ActivateTwoFactor(IdToString(req[r].user.id), req[r].body.tempData)
    /\ Goto(r, "delete")
    /\ UNCHANGED <<dbVars, cacheVars, lastOp, wsVars, payVars, tempTwoFactor>>

\* enable2FA: storage.deleteTempTwoFactorSecret(userId), return true; the route
\* answers 200
TfaEnableDelete(r) ==
    /\ req[r].kind = "tfaEnable" /\ req[r].pc = "delete"
    /\ tempTwoFactor' = DeleteTempTwoFactorSecret(IdToString(req[r].user.id))
    /\ Respond(r, 200, "ok", req[r].user)
    /\ UNCHANGED <<dbVars, cacheVars, lastOp, wsVars, payVars, userTwoFactor>>

TfaReqs == {"r1", "r2"}

InitTwoFactor ==
    /\ users = SeedUsers
    /\ session = [c \in Clients |-> 2]
    /\ tokens = {1}
    /\ categories = << >>
    /\ services = << >>
    /\ suggestions = << >>
    /\ reviews = << >>
    /\ tickets = << >>
    /\ InitHttp
    /\ InitCache
    /\ InitExt

NextTwoFactor ==
    \/ \E r \in TfaReqs, kind \in TfaKinds, hdr \in TfaHeaders :
           \E body \in TfaBodies(kind) : Arrive(r, kind, "c1", hdr, body)
    \/ \E r \in TfaReqs, body \in TfaLoginBodies : Arrive(r, "login", "c1", NoHdr, body)
    \/ \E r \in TfaReqs : TfaAuth(r)
    \/ \E r \in TfaReqs, secret \in Secrets : TfaSetupUser(r, secret)
    \/ \E r \in TfaReqs : TfaSetupSave(r)
    \/ \E r \in TfaReqs : TfaEnableRead(r)
    \/ \E r \in TfaReqs : TfaEnableActivate(r)
    \/ \E r \in TfaReqs : TfaEnableDelete(r)
    \/ \E r \in TfaReqs : LoginFindUser(r)
    \/ \E r \in TfaReqs : LoginPassword(r)

SpecTwoFactor == InitTwoFactor /\ [][NextTwoFactor]_vars

-----------------------------------------------------------------------------
(* validate2FALogin: the second factor of a login *)

\* the tokens a caller presents: the current code of secret s1, a backup code
\* in lower and in upper case, and a wrong one
LoginTokens == {"t1", "b1", "B1", "bad"}

\* token.toUpperCase()
ToUpperCase(token) ==
    CASE token = "b1" -> "B1" [] token = "t1" -> "T1" [] token = "bad" -> "BAD"
      [] OTHER -> token

\* storage.removeUsedBackupCode(userId, code): the code leaves the user's record
RemoveUsedBackupCode(userId, code) ==
    [userTwoFactor EXCEPT ![userId].backupCodes = @ \ {code}]

\* what a call of validate2FALogin returned, and on what ground
Returned(result, by, userId, code) ==
    [result |-> result, by |-> by, userId |-> userId, code |-> code]

\* a call of validate2FALogin(userId, token) starts
ValidateCall(r, userId, token) ==
    /\ Free(r)
    /\ req' = [req EXCEPT ![r] = [Idle EXCEPT !.kind = "validate2FA", !.pc = "recv",
                                              !.body = [userId |-> userId, token |-> token]]]
    /\ UNCHANGED <<dbVars, cacheVars, lastOp, extVars>>

\* the result of getUserTwoFactor, then the tests on the record read: not
\* active, the TOTP code, backupCodes.includes(token.toUpperCase())
ValidateRead(r) ==
    /\ req[r].kind = "validate2FA" /\ req[r].pc = "recv"
    /\ LET userId  == req[r].body.userId
           token   == req[r].body.token
           user2FA == GetUserTwoFactor(userId)
       IN IF ~user2FA.isActive
          THEN RespondWith(r, 0, "returned", Returned(TRUE, "inactive", userId, "-"))
          ELSE IF Verify2FAToken(user2FA.secret, token)
          THEN RespondWith(r, 0, "returned", Returned(TRUE, "totp", userId, "-"))
          ELSE IF ToUpperCase(token) \in user2FA.backupCodes
          THEN req' = [req EXCEPT ![r].pc = "remove"]
          ELSE RespondWith(r, 0, "returned", Returned(FALSE, "none", userId, "-"))
    /\ UNCHANGED <<dbVars, cacheVars, lastOp, extVars>>

\* await storage.removeUsedBackupCode(userId, token.toUpperCase()); return true
ValidateRemove(r) ==
    /\ req[r].kind = "validate2FA" /\ req[r].pc = "remove"
    /\ LET userId == req[r].body.userId
           code   == ToUpperCase(req[r].body.token)
       IN /\ userTwoFactor' = RemoveUsedBackupCode(userId, code)
          /\ RespondWith(r, 0, "returned", Returned(TRUE, "backup", userId, code))
    /\ UNCHANGED <<dbVars, cacheVars, lastOp, wsVars, payVars, tempTwoFactor>>

ValidateCalls == {"r1", "r2"}

\* the administrator has enabled two-factor authentication with secret s1
InitValidate ==
    /\ users = SeedUsers
    /\ session = [c \in Clients |-> 0]
    /\ tokens = {}
    /\ categories = << >>
    /\ services = << >>
    /\ suggestions = << >>
    /\ reviews = << >>
    /\ tickets = << >>
    /\ InitHttp
    /\ InitCache
    /\ connections = [id \in ConnIds |-> "none"]
    /\ userConnections = [u \in WsUserIds |-> NoConns]
    /\ sockets = [w \in Sockets |-> NoSocket]
    /\ now = 1
    /\ payments = << >>
    /\ stripe = FALSE
    /\ tempTwoFactor = [u \in TfaUserIds |-> NoTwoFactor]
    /\ userTwoFactor = [u \in TfaUserIds |->
                           IF u = "1" THEN [TempTwoFactor("s1") EXCEPT !.isActive = TRUE]
                           ELSE NoTwoFactor]

NextValidate ==
    \/ \E r \in ValidateCalls, userId \in {"1", "2"}, token \in LoginTokens :
           ValidateCall(r, userId, token)
    \/ \E r \in ValidateCalls : ValidateRead(r)
    \/ \E r \in ValidateCalls : ValidateRemove(r)

SpecValidate == InitValidate /\ [][NextValidate]_vars

-----------------------------------------------------------------------------
(* POST /api/payments/webhook and handlePaymentWebhook *)

\* stripeEvent.type
EventTypes == {"payment_intent.succeeded", "payment_intent.payment_failed"}

\* the record a PSE payment of 5000 with document type CC left, and its id
SeedPaymentId == <<1, "a">>
SeedPayments ==
    << PseRecord(SeedPaymentId, [amount |-> Amount(5000), documentType |-> "CC"]) >>

\* req.body and the stripe-signature header: whether the signature verifies,
\* the event's type and the id of its payment intent
WebhookBodies ==
    [sigOk : BOOLEAN, type : EventTypes, id : {SeedPaymentId, <<0, "pi">>}]

\* stripe.webhooks.constructEvent throws when the signature does not verify
ConstructEventThrows(event) == ~event.sigOk

EventSucceededAny(type) == TRUE

\* `stripeEvent.type === 'payment_intent.succeeded'`
EventSucceeded(type) == type = "payment_intent.succeeded"

\* storage.updatePaymentStatus(id, status): the record of that id takes the status
UpdatePaymentStatus(id, status) ==
    [i \in 1..Len(payments) |->
        IF payments[i].id = id THEN [payments[i] EXCEPT !.status = status]
        ELSE payments[i]]

\* the handler down to the await: `if (stripe)`, constructEvent, the type test
WebhookRecv(r) ==
    /\ req[r].kind = "webhook" /\ req[r].pc = "recv"
    /\ IF ~stripe
       THEN RespondWith(r, 200, "unconfigured", NoBody)
       ELSE IF ConstructEventThrows(req[r].body)
       THEN RespondWith(r, 400, "signature", NoBody)
       ELSE IF ~EventSucceeded(req[r].body.type)
       THEN RespondWith(r, 200, "ignored", NoBody)
       ELSE Goto(r, "update")
    /\ UNCHANGED <<dbVars, cacheVars, lastOp, extVars>>

\* storage.updatePaymentStatus(paymentIntent.id, 'succeeded'), res.json
WebhookUpdate(r) ==
    /\ req[r].kind = "webhook" /\ req[r].pc = "update"
    /\ payments' = UpdatePaymentStatus(req[r].body.id, "succeeded")
    /\ RespondWith(r, 200, "ok", NoBody)
    /\ UNCHANGED <<dbVars, cacheVars, lastOp, wsVars, tfaVars, stripe>>

ArriveWebhook(r, body) ==
    /\ Free(r)
    /\ req' = [req EXCEPT ![r] = [Idle EXCEPT !.kind = "webhook", !.pc = "recv",
                                              !.body = body]]
    /\ UNCHANGED <<dbVars, cacheVars, lastOp, extVars>>

WebhookReqs == {"r1", "r2"}

\* one pending payment; Stripe configured or not
InitWebhook ==
    /\ InitDb /\ InitHttp /\ InitCache
    /\ connections = [id \in ConnIds |-> "none"]
    /\ userConnections = [u \in WsUserIds |-> NoConns]
    /\ sockets = [w \in Sockets |-> NoSocket]
    /\ now = 1
    /\ payments = SeedPayments
    /\ stripe \in BOOLEAN
    /\ tempTwoFactor = [u \in TfaUserIds |-> NoTwoFactor]
    /\ userTwoFactor = [u \in TfaUserIds |-> NoTwoFactor]

NextWebhook ==
    \/ \E r \in WebhookReqs, body \in WebhookBodies : ArriveWebhook(r, body)
    \/ \E r \in WebhookReqs : WebhookRecv(r)
    \/ \E r \in WebhookReqs : WebhookUpdate(r)

SpecWebhook == InitWebhook /\ [][NextWebhook]_vars

-----------------------------------------------------------------------------
(* Properties *)

NoUserWritten == users' = users /\ session' = session /\ tokens' = tokens

\* C2: a POST /api/register whose username, or whose email, was that of an
\* existing user when it arrived writes no user, no session and no token at any
\* of its steps, and the response it gets is 400.
C2_DuplicateRegistrationRefused ==
    [][\A r \in RegReqs :
          (req[r].kind = "register" /\ req[r].dup /\ req'[r] # req[r])
              => /\ NoUserWritten
                 /\ req'[r].pc = "done" => req'[r].status = 400
      ]_vars

\* C2 witness: a registration with a free username and a taken email was refused
C2_Witness ==
    \E r \in RegReqs :
        /\ req[r].kind = "register" /\ req[r].pc = "done"
        /\ req[r].status = 400 /\ req[r].cause = "email"

\* C3: no two rows of users share a username or an email, whatever the
\* interleaving of registrations, and a registration that is not answered 201
\* leaves the users table as it was.
C3_UniqueUsers ==
    /\ [](\A i, j \in UserIds :
            i # j => /\ users[i].username # users[j].username
                     /\ users[i].email # users[j].email)
    /\ [][\A r \in RegReqs :
            (req[r].kind = "register" /\ req[r].pc # "done"
                /\ req'[r].pc = "done" /\ req'[r].status # 201)
                => users' = users
         ]_vars

\* C3 witness: two registrations passed both existence checks and the second
\* insert was refused by the unique constraint, with both rows' names in place
C3_Witness ==
    /\ \E r \in RegReqs :
           /\ req[r].kind = "register" /\ req[r].pc = "done"
           /\ req[r].status = 500 /\ req[r].cause = "db"
    /\ Len(users) > Len(SeedUsers)

\* the request carries a Bearer token that verifyToken accepts
CarriesAcceptedToken(q) ==
    q.hdr.scheme = "bearer" /\ q.hdr.sig = "ok" /\ q.hdr.iat = "fresh"

\* the user id the request's credentials name: the token's, else the session's
CredentialUser(q) ==
    IF CarriesAcceptedToken(q) THEN q.hdr.uid ELSE session[q.client]

\* a credential is present and names an existing, active user
MayReachHandler(q) ==
    /\ CarriesAcceptedToken(q) \/ session[q.client] > 0
    /\ CredentialUser(q) \in UserIds
    /\ users[CredentialUser(q)].isActive

\* C4: authenticate lets a request through only with an accepted Bearer token or
\* a positive session userId that resolves to an existing user with isActive
\* true, as that user; every other request is answered 401 without running the
\* handler, so a user deactivated since the token or session was issued is
\* refused.
C4_AuthenticateGate ==
    [][\A r \in AuthReqs :
          (req[r].kind = "user" /\ req[r].pc = "recv" /\ req'[r] # req[r])
              => /\ req'[r].status # 401
                     => /\ MayReachHandler(req[r])
                        /\ req'[r].user.id = CredentialUser(req[r])
                 /\ ~MayReachHandler(req[r])
                     => req'[r].pc = "done" /\ req'[r].status = 401
      ]_vars

\* C4 witness: a request with a token the server signed less than 12 hours ago,
\* or a live session, was answered 401 because the user had been deactivated
C4_Witness ==
    \E r \in AuthReqs :
        /\ req[r].kind = "user" /\ req[r].pc = "done"
        /\ req[r].status = 401 /\ req[r].cause = "inactive"

-----------------------------------------------------------------------------
(* C8: a cache miss suspended in its fetcher while the data changes and the
   patterns are invalidated must not leave the earlier value in the cache:
   every key filled from a read that preceded an insert whose invalidation
   has since run holds what its fetcher would read now. *)
C8_NoValueFromBeforeInvalidation ==
    \A k \in preChange : cache[k].present => cache[k].value = Fetcher(k)

ChangingOps ==
    {"createService", "updateService", "deleteService", "approveService", "featureService"}

StatsCoherent == cache[KeyStats].present => cache[KeyStats].value = Stats

(* C9: once a storage operation that changes services has completed, the
   statistics getCachedStats would return from the cache are those of the
   data after the operation: an operation that starts from a cache agreeing
   with the table leaves the cache agreeing with the table. *)
C9_StatsFreshAfterChange ==
    [][lastOp'.op \in ChangingOps /\ (lastOp'.op = "createService" \/ StatsCoherent)
         => StatsCoherent']_vars

\* p occurs in key: some run of consecutive characters of key spells p
Contains(key, p) ==
    \E a \in 0..Len(key) : \E b \in a..Len(key) :
        /\ b - a = Len(p)
        /\ \A i \in 1..Len(p) : key[a + i] = p[i]

(* C10: invalidatePattern(p) deletes exactly the keys that contain p as a
   substring and leaves every other entry, value and expiry, as it was; so a
   session: or rate_limit: key goes whenever its user id or action contains p. *)
C10_InvalidatePatternSubstring ==
    [][lastOp'.op = "invalidatePattern" =>
         LET p == lastOp'.pattern IN
         /\ \A k \in CacheKeys :
               IF Contains(k, p) THEN cache'[k] = NoEntry ELSE cache'[k] = cache[k]
         /\ \A u \in CacheUserIds :
               Contains(u, p) => cache'[SessionKey(u)] = NoEntry
         /\ \A u \in CacheUserIds, a \in CacheActions :
               Contains(u, p) \/ Contains(a, p) => cache'[RateLimitKey(u, a)] = NoEntry
      ]_vars

\* C10 witness: invalidatePattern('12') has just deleted the session and the
\* rate-limit counter of user 12 and left the session of user 1 and the
\* cached statistics in place
C10_Witness ==
    /\ lastOp.op = "invalidatePattern"
    /\ lastOp.pattern = <<"1","2">>
    /\ lastOp.deleted = {SessionKey(<<"1","2">>), RateLimitKey(<<"1","2">>, <<"l","o","g","i","n">>)}
    /\ cache[SessionKey(<<"1">>)].present
    /\ cache[KeyStats].present

\* the user authenticate attached to the request that takes this step: req.user
\* as the step finds it, or as authenticate leaves it when the step is its own
AuthenticatedAs(r) == IF req[r].pc = "recv" THEN req'[r].user ELSE req[r].user

\* a step of a moderation request that authenticate accepted from a user who
\* is not an administrator
NonAdminStep(r) ==
    /\ req[r].kind \in ModKinds /\ req[r].pc \in {"recv", "role", "op"}
    /\ req'[r] # req[r]
    /\ AuthenticatedAs(r).id # 0
    /\ AuthenticatedAs(r).role # "admin"

(* C1: every moderation endpoint (approve or feature a service, create, update
   or delete a category, set a suggestion's status, approve a review, list the
   support tickets) answers an authenticated user who is not an administrator
   with 403, and no step of such a request changes a record. *)
C1_ModerationAdminOnly ==
    [][\A r \in ModReqs :
          NonAdminStep(r) =>
              /\ dbVars' = dbVars
              /\ cache' = cache
              /\ req'[r].pc # "op"
              /\ req'[r].pc = "done" => req'[r].status = 403
      ]_vars

\* C1 witness: the provider asked to approve a service, was answered 403 by
\* the handler's own role test, and the service is still unapproved
C1_Witness ==
    \E r \in ModReqs :
        /\ req[r].kind = "approve" /\ req[r].pc = "done"
        /\ req[r].status = 403 /\ req[r].cause = "admin"
        /\ req[r].user.role = "provider"
        /\ ~services[1].isApproved

(* C7: every route that validates its body against a schema answers a
   validation failure with 400, and answers 500 only for other failures. *)
C7_ValidationFailureIs400 ==
    \A r \in Reqs :
        req[r].pc = "done" /\ req[r].cause = "validation" => req[r].status = 400

(* C5: only a provider or an administrator can create a listing: a
   POST /api/services from a user whose role is 'user' creates no service. *)
C5_OnlyProvidersCreateServices ==
    [][\A r \in SvcReqs :
          /\ req[r].kind = "svcCreate" /\ req[r].pc \in {"recv", "insert", "created"}
          /\ req'[r] # req[r]
          /\ AuthenticatedAs(r).id # 0
          /\ ~RequireProvider(AuthenticatedAs(r))
          => services' = services
      ]_vars

StatusRank(status) ==
    CASE status = "open" -> 0 [] status = "in_progress" -> 1 [] OTHER -> 2

(* C6: a support ticket's status follows open -> in_progress -> resolved or
   closed: a ticket created by POST /api/support/tickets starts 'open', and the
   status of a stored ticket only moves forward. *)
C6_TicketLifecycle ==
    [][/\ \A i \in 1..Len(tickets') :
             i > Len(tickets) => tickets'[i].status = "open"
       /\ \A i \in 1..Len(tickets) :
             StatusRank(tickets'[i].status) >= StatusRank(tickets[i].status)
      ]_vars

\* the users whose set in userConnections holds the connection id
HoldersOf(id) == {u \in WsUserIds : userConnections[u].has /\ id \in userConnections[u].ids}

(* C11: after any sequence of connection and close events, a connection id is
   a key of connections exactly when it is a member of exactly one user's set
   in userConnections, that set is the one of the user the connection was
   registered for, and userConnections holds no empty set. *)
C11_ConnectionMapsAgree ==
    /\ \A id \in ConnIds :
          /\ connections[id] # "none" <=> Cardinality(HoldersOf(id)) = 1
          /\ connections[id] # "none" => HoldersOf(id) = {sockets[connections[id]].userId}
    /\ \A u \in WsUserIds : userConnections[u].has => userConnections[u].ids # {}

\* the token login or registration issued to user u, while it has not aged out
IssuedToken(u) == TokenHdr(u, "fresh")

(* C12: logout does not revoke tokens: POST /api/logout destroys the session
   and nothing else, so a token issued to the session's user before the logout
   is still one authenticate accepts, and a request that carries it without a
   session is answered as that user, until the token ages out. *)
C12_LogoutKeepsTokens ==
    [][\A r \in AuthReqs :
          /\ (req[r].kind = "logout" /\ req[r].pc = "recv" /\ req'[r].pc = "done") =>
                LET c == req[r].client
                    u == session[c]
                IN /\ session'[c] = 0
                   /\ u \in tokens =>
                         /\ u \in tokens'
                         /\ IssuedToken(u) \in Headers'
                         /\ AuthUserId(IssuedToken(u), session'[c]) = u
          /\ (/\ req[r].kind = "user" /\ req[r].pc = "recv" /\ req'[r].pc = "done"
              /\ session[req[r].client] = 0
              /\ req[r].hdr \in {IssuedToken(u) : u \in tokens}
              /\ users[req[r].hdr.uid].isActive) =>
                /\ req'[r].status = 200
                /\ req'[r].user.id = req[r].hdr.uid
      ]_vars

\* C12 witness: the client has logged out (its session is destroyed) and now
\* sends a request that carries the token issued at the login, the only token
\* issued, and no session
C12_Witness ==
    \E r1, r2 \in AuthReqs : \E u \in UserIds :
        /\ req[r1].kind = "logout" /\ req[r1].pc = "done" /\ req[r1].status = 200
        /\ session[req[r2].client] = 0
        /\ tokens = {u}
        /\ users[u].isActive
        /\ req[r2].kind = "user" /\ req[r2].pc = "recv"
        /\ req[r2].hdr = IssuedToken(u)

\* the request's amount is a number of at least 5000 and its document type is
\* one of CC, CE, NIT
PseAcceptable(payment) ==
    /\ payment.amount.isNumber /\ payment.amount.value >= 5000
    /\ payment.documentType \in {"CC", "CE", "NIT"}

\* the request's amount is a number below 5000, or its document type is not
\* one of CC, CE, NIT
PseRefusable(payment) ==
    \/ payment.amount.isNumber /\ payment.amount.value < 5000
    \/ payment.documentType \notin {"CC", "CE", "NIT"}

(* C13: createPSEPayment writes exactly one payment record, with status
   'pending', method 'pse' and currency 'COP', and returns an intent with
   status 'pending' and the same id, when the amount is at least 5000 and the
   document type is CC, CE or NIT; when the amount is below 5000 or the
   document type is another it throws and writes no record. *)
C13_PsePayment ==
    [][/\ \A r \in PseReqs :
             (req[r].kind = "pse" /\ req[r].pc = "recv" /\ req'[r] # req[r]) =>
                 /\ payments' = payments
                 /\ PseAcceptable(req[r].body) => req'[r].pc = "record"
                 /\ PseRefusable(req[r].body) => req'[r].pc = "done" /\ req'[r].status = 500
       /\ \A r \in PseReqs :
             (req[r].kind = "pse" /\ req[r].pc = "record" /\ req'[r] # req[r]) =>
                 /\ Len(payments') = Len(payments) + 1
                 /\ SubSeq(payments', 1, Len(payments)) = payments
                 /\ LET record == payments'[Len(payments')]
                        intent == req'[r].body
                    IN /\ record.status = "pending" /\ record.paymentMethod = "pse"
                       /\ record.currency = "COP"
                       /\ req'[r].pc = "done" /\ req'[r].status = 200
                       /\ intent.status = "pending" /\ intent.id = record.id
       /\ payments' # payments =>
             \E r \in PseReqs : req[r].kind = "pse" /\ req[r].pc = "record" /\ req'[r] # req[r]
      ]_vars

\* C13 witness: a request for exactly 5000 with document type CC was answered
\* with a pending intent whose id is that of the one record written
C13_Witness ==
    \E r \in PseReqs :
        /\ req[r].kind = "pse" /\ req[r].pc = "done" /\ req[r].status = 200
        /\ req[r].body.amount = Amount(5000)
        /\ Len(payments) = 1
        /\ payments[1].id = req[r].body.id
        /\ payments[1].documentType = "CC"

\* the step is the storage call of an administrator's PATCH /api/services/:id/approve
AdminApproveStep ==
    \E r \in CatalogReqs :
        /\ req[r].kind = "approve" /\ req[r].pc = "op" /\ req'[r].pc = "done"
        /\ users[req[r].user.id].role = "admin"

\* the step is the storage call of a PUT /api/services/:id of a requester who
\* is not an administrator
NonAdminPutStep ==
    \E r \in CatalogReqs :
        /\ req[r].kind = "svcPut" /\ req[r].pc = "write" /\ req'[r].pc = "done"
        /\ users[req[r].user.id].role # "admin"

\* row i has the flag after the step and did not have it, or did not exist, before
Gains(i, flag) ==
    /\ i \in Live(services') /\ services'[i][flag]
    /\ ~(i \in Live(services) /\ services[i][flag])

(* C14: a service becomes approved only through an administrator's PATCH
   approve: a created service starts unapproved whatever the body carries, and
   no PUT of a requester who is not an administrator makes a service approved
   or featured. *)
C14_ApprovedOnlyByAdmin ==
    [][\A i \in 1..Len(services') :
          /\ Gains(i, "isApproved") => AdminApproveStep
          /\ Gains(i, "isFeatured") => ~NonAdminPutStep
      ]_vars

(* C15: PUT and DELETE /api/services/:id go through only for the service's
   owner (service.userId is the requester's id as a string) or an
   administrator: a request for an id no service has is answered 404, one of
   anybody else 403, and neither changes the table; only the storage call of a
   request that passed changes it, and only at the row of its id. *)
C15_OwnerOrAdminOnly ==
    [][\A r \in OwnerReqs :
          (req[r].kind \in OwnerKinds /\ req'[r] # req[r]) =>
              LET id == req[r].body.id
                  requester == req[r].user
              IN /\ (req[r].pc = "service" /\ id \notin Live(services)) =>
                        req'[r].pc = "done" /\ req'[r].status = 404
                 /\ (/\ req[r].pc = "service" /\ id \in Live(services)
                     /\ services[id].userId # IdToString(requester.id)
                     /\ users[requester.id].role # "admin") =>
                        req'[r].pc = "done" /\ req'[r].status = 403
                 /\ req[r].pc # "write" => services' = services
                 /\ req[r].pc = "write" =>
                        /\ Len(services') = Len(services)
                        /\ \A i \in 1..Len(services) : i # id => services'[i] = services[i]
      ]_vars

\* C15 witness: the plain user's PUT was answered 403, the owner's DELETE 200,
\* and the service is gone
C15_Witness ==
    \E r1, r2 \in OwnerReqs :
        /\ req[r1].kind = "svcPut" /\ req[r1].pc = "done" /\ req[r1].status = 403
        /\ req[r1].user.id = 2
        /\ req[r2].kind = "svcDelete" /\ req[r2].pc = "done" /\ req[r2].status = 200
        /\ req[r2].user.id = 3
        /\ 1 \notin Live(services)

(* C16: a service's owner never changes: the row POST /api/services inserts
   has the requester's id as userId whatever the body carries, and no PUT of a
   requester who is not an administrator changes a row's userId. *)
C16_OwnerNeverChanges ==
    [][/\ \A r \in CatalogReqs :
             (req[r].kind = "svcCreate" /\ req[r].pc = "insert"
                  /\ Len(services') = Len(services) + 1) =>
                 services'[Len(services')].userId = IdToString(req[r].user.id)
       /\ NonAdminPutStep =>
             \A i \in Live(services) \cap Live(services') :
                 services'[i].userId = services[i].userId
      ]_vars

(* C17: GET /api/services, with any query, and GET /api/services/:id never
   return a service that is not approved; such services are returned only to
   an administrator by GET /api/admin/services/pending and to their owner by
   GET /api/user/services. *)
C17_UnapprovedNeverPublic ==
    \A r \in CatalogReqs :
        (req[r].pc = "done" /\ req[r].status = 200) =>
            /\ req[r].kind \in PublicKinds =>
                   \A row \in req[r].body.rows : row[2].isApproved
            /\ req[r].kind = "svcPending" => users[req[r].user.id].role = "admin"
            /\ req[r].kind = "svcMine" =>
                   \A row \in req[r].body.rows : row[2].userId = IdToString(req[r].user.id)

(* C18: POST /api/register creates the user with role 'user' and isActive
   true whatever the body carries, changes no other user, and the user in its
   201 response is the row without its password. *)
C18_RegisterDefaults ==
    [][\A r \in RegReqs :
          (/\ req[r].kind = "register" /\ req[r].pc = "insert"
           /\ req'[r].pc = "done" /\ req'[r].status = 201) =>
              /\ Len(users') = Len(users) + 1
              /\ \A i \in 1..Len(users) : users'[i] = users[i]
              /\ LET created == users'[Len(users')]
                     shown   == req'[r].body.user
                 IN /\ created.username = req[r].body.username
                    /\ created.role = "user"
                    /\ created.isActive = TRUE
                    /\ created.password = HashPassword(req[r].body.password)
                    /\ "password" \notin DOMAIN shown
                    /\ shown.username = created.username
                    /\ shown.role = "user"
      ]_vars

\* C18 witness: the registration of zoe, whose body carried role 'admin' and
\* isActive false, was answered 201 and its row has the defaults
C18_Witness ==
    \E r \in RegReqs : \E i \in UserIds :
        /\ req[r].kind = "register" /\ req[r].pc = "done" /\ req[r].status = 201
        /\ req[r].body.user.username = "zoe"
        /\ users[i].username = "zoe" /\ users[i].role = "user" /\ users[i].isActive

\* the two-factor authentication of user u is active
TwoFactorActive(u) == GetUserTwoFactor(IdToString(u)).isActive

(* C19: a user whose two-factor authentication is active gets no token and no
   session from POST /api/login with username and password alone. *)
C19_LoginNeedsSecondFactor ==
    [][\A r \in TfaReqs :
          (/\ req[r].kind = "login" /\ req[r].pc = "password"
           /\ req'[r].pc = "done" /\ TwoFactorActive(req[r].user.id)) =>
              /\ req'[r].status # 200
              /\ tokens' = tokens
              /\ session' = session
      ]_vars

(* C20: two-factor authentication becomes active for a user only at the
   activation step of an enable2FA call of that user which found a pending
   secret and a token valid for it; saving a pending secret activates nothing;
   an enable2FA that answers false changes neither store; when an enable2FA
   answers true the user's pending secret no longer exists. *)
C20_ActiveOnlyWhenVerified ==
    [][/\ \A u \in TfaUserIds :
             (userTwoFactor'[u].isActive /\ ~userTwoFactor[u].isActive) =>
                 \E r \in TfaReqs :
                     /\ req[r].kind = "tfaEnable" /\ req[r].pc = "activate"
                     /\ req'[r].pc = "delete"
                     /\ IdToString(req[r].user.id) = u
                     /\ req[r].body.tempData.exists
                     /\ req[r].body.token = Totp(req[r].body.tempData.secret)
                     /\ userTwoFactor'[u].secret = req[r].body.tempData.secret
       /\ \A r \in TfaReqs :
             (req[r].kind = "tfaEnable" /\ req[r].pc # "done" /\ req'[r].pc = "done") =>
                 IF req'[r].status = 200
                 THEN ~tempTwoFactor'[IdToString(req[r].user.id)].exists
                 ELSE /\ tempTwoFactor' = tempTwoFactor
                      /\ userTwoFactor' = userTwoFactor
       /\ \A r \in TfaReqs :
             (/\ req[r].kind = "tfaEnable" /\ req[r].pc = "temp" /\ req'[r] # req[r]
              /\ LET pending == tempTwoFactor[IdToString(req'[r].user.id)]
                 IN ~pending.exists \/ req[r].body.token # Totp(pending.secret)) =>
                 /\ req'[r].pc = "done" /\ req'[r].status = 400
       /\ \A r \in TfaReqs :
             (req[r].kind = "tfaSetup" /\ req'[r] # req[r]) => userTwoFactor' = userTwoFactor
      ]_vars

\* C20 witness: the administrator's enable2FA answered true: two-factor
\* authentication is active and no secret is pending
C20_Witness ==
    \E r \in TfaReqs :
        /\ req[r].kind = "tfaEnable" /\ req[r].pc = "done" /\ req[r].status = 200
        /\ userTwoFactor["1"].isActive
        /\ ~tempTwoFactor["1"].exists

\* call r has returned true on backup code `code` of user `userId`
AcceptedBackupCode(r, userId, code) ==
    /\ req[r].kind = "validate2FA" /\ req[r].pc = "done"
    /\ req[r].body.result /\ req[r].body.by = "backup"
    /\ req[r].body.userId = userId /\ req[r].body.code = code

(* C21: each backup code authenticates at most one validate2FALogin call: no
   two calls have returned true on the same backup code of the same user, also
   when they ran concurrently. *)
C21_BackupCodeUsedOnce ==
    \A r1, r2 \in ValidateCalls : \A userId \in TfaUserIds, code \in BackupCodes :
        (AcceptedBackupCode(r1, userId, code) /\ AcceptedBackupCode(r2, userId, code))
            => r1 = r2

\* request r carries an event whose signature verifies, of type
\* payment_intent.succeeded, and Stripe is configured
ConfirmingEvent(r) ==
    /\ req[r].kind = "webhook" /\ req[r].pc \in {"recv", "update"} /\ stripe
    /\ req[r].body.sigOk /\ req[r].body.type = "payment_intent.succeeded"

(* C22: a payment's status becomes 'succeeded' only at the storage call of a
   webhook request whose signature verifies and whose type is
   payment_intent.succeeded, and for the payment the event names; a request
   whose signature does not verify is answered 400; a request that is not such
   an event, or any request when Stripe is not configured, changes no payment
   at any of its steps. *)
C22_SucceededOnlyByWebhook ==
    [][/\ \A i \in 1..Len(payments) :
             (payments'[i].status = "succeeded" /\ payments[i].status # "succeeded") =>
                 \E r \in WebhookReqs :
                     /\ ConfirmingEvent(r) /\ req[r].pc = "update" /\ req'[r].pc = "done"
                     /\ req[r].body.id = payments[i].id
       /\ \A r \in WebhookReqs :
             (req[r].kind = "webhook" /\ req[r].pc \in {"recv", "update"}
                  /\ req'[r] # req[r]) =>
                 /\ ~ConfirmingEvent(r) => payments' = payments /\ req'[r].pc = "done"
                 /\ (stripe /\ ~req[r].body.sigOk) => req'[r].status = 400
                 /\ ~stripe => req'[r].status = 200
      ]_vars

\* C22 witness: a verified payment_intent.succeeded event for the pending
\* payment was answered 200 and the payment has succeeded
C22_Witness ==
    \E r \in WebhookReqs :
        /\ req[r].kind = "webhook" /\ req[r].pc = "done"
        /\ req[r].status = 200 /\ req[r].cause = "ok"
        /\ stripe
        /\ payments[1].status = "succeeded"

\* the sockets handleConnection registered under userId that have not closed
\* and whose readyState is OPEN
OpenSocketsOf(userId) ==
    {w \in Sockets : sockets[w].state = "open" /\ sockets[w].userId = userId}

(* C23: sendToUser(u, m) sends to exactly the open sockets registered under u,
   broadcastServiceUpdate to every open registered socket; neither changes the
   connection maps, and no closed socket is sent anything. *)
C23_SendsReachTheirSockets ==
    [][(lastOp' # lastOp /\ lastOp'.op \in {"sendToUser", "broadcastServiceUpdate"}) =>
          /\ lastOp'.op = "sendToUser" => lastOp'.sent = OpenSocketsOf(lastOp'.userId)
          /\ lastOp'.op = "broadcastServiceUpdate" =>
                 lastOp'.sent = UNION {OpenSocketsOf(u) : u \in WsUserIds}
          /\ \A w \in lastOp'.sent : sockets[w].state # "closed"
          /\ connections' = connections /\ userConnections' = userConnections
      ]_vars
====
